---- MODULE Spec2Model ----
(***************************************************************************)
(* Field extraction and config synthesis pipeline of the config generator. *)
(*                                                                         *)
(* JavaScript strings are modelled as sequences of one-character strings,  *)
(* so that the string functions of the code (toLowerCase, includes, trim,  *)
(* split, replace, parseInt) are computed character by character.          *)
(* JavaScript numbers are records [nan, v]: NaN is a value parseInt can    *)
(* return.  undefined / null are the distinguished values below.           *)
(***************************************************************************)
EXTENDS Integers, Sequences, FiniteSets, TLC

VARIABLES
    rows,          \* a ConsolidatedRow[]: argument of generateAllConfigs and
                   \* of generateConsolidatedExcel
    configs,       \* the ConfigJSON[] generateAllConfigs returned last
    runs,          \* number of calls of the synthesizer made so far
    worksheet,     \* the sheet parseConsolidatedExcel reads: rows of nine cells
    parsedRows,    \* the ConsolidatedRow[] parseConsolidatedExcel resolved
    excelPc,       \* "idle", "start", "exported", "uploaded", "parsedExport",
                   \* "parsedUpload"
    fieldGroups,   \* sortFieldsByPosition: its array argument (sorted in place)
    sortedFields,  \* sortFieldsByPosition: the array it returned
    sortPc,        \* "idle", "start", "sorted"
    nodeData,      \* the document node given to extractFieldsFromNode
    fields,        \* the FigmaField[] extractFieldsFromNode returned
    emitters,      \* history: for each field, the id of the node whose batch
                   \* pushed it
    walkPc,        \* "idle", "start", "extracted"
    ui1Inputs,     \* UI1ExtractConsolidate: what the user entered and what the
                   \* Figma API and the uploaded files hold
    ui1State,      \* UI1ExtractConsolidate: its state after handleProcess, with
                   \* the alert shown and the calls made
    ui2State       \* UI2GenerateConfig: its state, with the alert shown

synthVars == <<rows, configs, runs>>
excelVars == <<worksheet, parsedRows, excelPc>>
sortVars == <<fieldGroups, sortedFields, sortPc>>
walkVars == <<nodeData, fields, emitters, walkPc>>
ui1Vars == <<ui1Inputs, ui1State>>
ui2Vars == <<ui2State>>
vars == <<rows, configs, runs, worksheet, parsedRows, excelPc,
          fieldGroups, sortedFields, sortPc, nodeData, fields, emitters, walkPc,
          ui1Inputs, ui1State, ui2State>>

SynthIdle == configs = <<>> /\ runs = 0
ExcelIdle == worksheet = <<>> /\ parsedRows = <<>> /\ excelPc = "idle"
SortIdle == fieldGroups = <<>> /\ sortedFields = <<>> /\ sortPc = "idle"
WalkIdle == nodeData = <<>> /\ fields = <<>> /\ emitters = <<>> /\ walkPc = "idle"
Ui1Idle == ui1Inputs = <<>> /\ ui1State = <<>>
Ui2Idle == ui2State = <<>>

-----------------------------------------------------------------------------
(* Values                                                                  *)

Undefined == <<"undefined">>
Null == <<"null">>

Num(n) == [nan |-> FALSE, v |-> n]
NaN == [nan |-> TRUE, v |-> 0]

-----------------------------------------------------------------------------
(* String primitives                                                       *)

Lowers == <<"a","b","c","d","e","f","g","h","i","j","k","l","m",
            "n","o","p","q","r","s","t","u","v","w","x","y","z">>
Uppers == <<"A","B","C","D","E","F","G","H","I","J","K","L","M",
            "N","O","P","Q","R","S","T","U","V","W","X","Y","Z">>
Digits == <<"0","1","2","3","4","5","6","7","8","9">>

IsLowerCh(c) == \E i \in DOMAIN Lowers : Lowers[i] = c
IsUpperCh(c) == \E i \in DOMAIN Uppers : Uppers[i] = c
IsDigitCh(c) == \E i \in DOMAIN Digits : Digits[i] = c
\* the class \s restricted to the characters the model uses
IsSpaceCh(c) == c \in {" ", "\t", "\n", "\r"}

toLowerCaseCh(c) ==
    IF IsUpperCh(c) THEN Lowers[CHOOSE i \in DOMAIN Uppers : Uppers[i] = c] ELSE c
toUpperCaseCh(c) ==
    IF IsLowerCh(c) THEN Uppers[CHOOSE i \in DOMAIN Lowers : Lowers[i] = c] ELSE c

toLowerCase(s) == [i \in 1..Len(s) |-> toLowerCaseCh(s[i])]
toUpperCase(s) == [i \in 1..Len(s) |-> toUpperCaseCh(s[i])]

\* String.prototype.includes
includes(s, sub) ==
    \E i \in 0..(Len(s) - Len(sub)) : SubSeq(s, i + 1, i + Len(sub)) = sub

\* String.prototype.trim
RECURSIVE trimStart(_)
trimStart(s) ==
    IF s # <<>> /\ IsSpaceCh(Head(s)) THEN trimStart(Tail(s)) ELSE s
RECURSIVE trimEnd(_)
trimEnd(s) ==
    IF s # <<>> /\ IsSpaceCh(s[Len(s)]) THEN trimEnd(SubSeq(s, 1, Len(s) - 1)) ELSE s
trim(s) == trimEnd(trimStart(s))

\* s.replace(/[^a-zA-Z0-9\s]/g, '')
RECURSIVE stripNonAlnum(_)
stripNonAlnum(s) ==
    IF s = <<>> THEN <<>>
    ELSE LET c == Head(s) IN
         IF IsLowerCh(c) \/ IsUpperCh(c) \/ IsDigitCh(c) \/ IsSpaceCh(c)
         THEN <<c>> \o stripNonAlnum(Tail(s))
         ELSE stripNonAlnum(Tail(s))

\* s.split(/\s+/): i is the next position, cur the word being read, acc the
\* words already closed.  A leading or trailing run of whitespace yields an
\* empty first or last word, as in JavaScript.
RECURSIVE splitFrom(_, _, _, _)
splitFrom(s, i, cur, acc) ==
    IF i > Len(s) THEN Append(acc, cur)
    ELSE IF IsSpaceCh(s[i])
         THEN IF i > 1 /\ IsSpaceCh(s[i - 1])
              THEN splitFrom(s, i + 1, cur, acc)
              ELSE splitFrom(s, i + 1, <<>>, Append(acc, cur))
         ELSE splitFrom(s, i + 1, Append(cur, s[i]), acc)
splitWhitespace(s) == splitFrom(s, 1, <<>>, <<>>)

\* words.join('')
RECURSIVE joinWords(_)
joinWords(ws) == IF ws = <<>> THEN <<>> ELSE Head(ws) \o joinWords(Tail(ws))

-----------------------------------------------------------------------------
(* String constants of the code                                            *)

S_empty == <<>>
S_currency == <<"c","u","r","r","e","n","c","y">>
S_amount == <<"a","m","o","u","n","t">>
S_premium == <<"p","r","e","m","i","u","m">>
S_date == <<"d","a","t","e">>
S_email == <<"e","m","a","i","l">>
S_phone == <<"p","h","o","n","e">>
S_tel == <<"t","e","l">>
S_dropdown == <<"d","r","o","p","d","o","w","n">>
S_select == <<"s","e","l","e","c","t">>
S_number == <<"n","u","m","b","e","r">>
S_count == <<"c","o","u","n","t">>
S_age == <<"a","g","e">>
S_percent == <<"p","e","r","c","e","n","t">>
S_percentage == <<"p","e","r","c","e","n","t","a","g","e">>
S_currency_input == <<"c","u","r","r","e","n","c","y","-","i","n","p","u","t">>
S_customSelect == <<"c","u","s","t","o","m","S","e","l","e","c","t">>
S_text == <<"t","e","x","t">>
S_required == <<"r","e","q","u","i","r","e","d">>
S_min == <<"m","i","n">>
S_is_required == <<" ","i","s"," ","r","e","q","u","i","r","e","d">>
S_valid_email == <<"P","l","e","a","s","e"," ","e","n","t","e","r"," ","a"," ","v","a","l","i","d"," ","e","m","a","i","l"," ","a","d","d","r","e","s","s">>
S_not_negative == <<"V","a","l","u","e"," ","c","a","n","n","o","t"," ","b","e"," ","n","e","g","a","t","i","v","e">>
S_Balance == <<"B","a","l","a","n","c","e">>
S_amount_object == <<"a","m","o","u","n","t","_","o","b","j","e","c","t">>
S_plain_value == <<"p","l","a","i","n","_","v","a","l","u","e">>
S_deductible == <<"d","e","d","u","c","t","i","b","l","e">>
S_copay == <<"c","o","p","a","y">>
S_coinsurance == <<"c","o","i","n","s","u","r","a","n","c","e">>
S_oop == <<"o","o","p">>
S_out_of_pocket == <<"o","u","t"," ","o","f"," ","p","o","c","k","e","t">>
S_DEDUCTIBLE == <<"D","E","D","U","C","T","I","B","L","E">>
S_COPAY == <<"C","O","P","A","Y">>
S_COINSURANCE == <<"C","O","I","N","S","U","R","A","N","C","E">>
S_OOP_MAX == <<"O","O","P","_","M","A","X">>
S_empValue == <<"e","m","p","V","a","l","u","e">>
S_zero_placeholder == <<"0",".","0","0">>
S_field == <<"f","i","e","l","d">>
S_CPQ == <<"C","P","Q">>
S_underscore == <<"_">>

-----------------------------------------------------------------------------
(* Config synthesizer                                                      *)

\* mutant: "deductible" counted among the currency fragments
inferFieldType_DeductibleIsCurrency(fieldName) ==
    LET name == toLowerCase(fieldName) IN
    IF includes(name, S_currency) \/ includes(name, S_amount)
       \/ includes(name, S_premium) \/ includes(name, S_deductible)
    THEN S_currency_input
    ELSE S_text

\* mutant: the date fragment tested before the currency fragments
inferFieldType_DateFirst(fieldName) ==
    LET name == toLowerCase(fieldName) IN
    IF includes(name, S_date) THEN S_date
    ELSE IF includes(name, S_currency) \/ includes(name, S_amount)
            \/ includes(name, S_premium)
    THEN S_currency_input
    ELSE IF includes(name, S_email) THEN S_email
    ELSE IF includes(name, S_phone) \/ includes(name, S_tel) THEN S_tel
    ELSE IF includes(name, S_dropdown) \/ includes(name, S_select) THEN S_customSelect
    ELSE IF includes(name, S_number) \/ includes(name, S_count) \/ includes(name, S_age)
    THEN S_number
    ELSE IF includes(name, S_percent) \/ includes(name, S_percentage) THEN S_percentage
    ELSE S_text


inferFieldType(fieldName) ==
    LET name == toLowerCase(fieldName) IN
    IF includes(name, S_currency) \/ includes(name, S_amount) \/ includes(name, S_premium)
    THEN S_currency_input
    ELSE IF includes(name, S_date) THEN S_date
    ELSE IF includes(name, S_email) THEN S_email
    ELSE IF includes(name, S_phone) \/ includes(name, S_tel) THEN S_tel
    ELSE IF includes(name, S_dropdown) \/ includes(name, S_select) THEN S_customSelect
    ELSE IF includes(name, S_number) \/ includes(name, S_count) \/ includes(name, S_age)
    THEN S_number
    ELSE IF includes(name, S_percent) \/ includes(name, S_percentage) THEN S_percentage
    ELSE S_text

\* mutant: a later rule takes the place of the rules before it
inferValidationRules_Replace(fieldName, fieldType, isRequired) ==
    IF fieldType = S_number \/ fieldType = S_currency_input
    THEN << [type |-> S_min, value |-> Num(0), message |-> S_not_negative] >>
    ELSE IF fieldType = S_email
    THEN << [type |-> S_email, message |-> S_valid_email] >>
    ELSE IF isRequired
    THEN << [type |-> S_required, message |-> fieldName \o S_is_required] >>
    ELSE <<>>


inferValidationRules(fieldName, fieldType, isRequired) ==
    (IF isRequired
     THEN << [type |-> S_required, message |-> fieldName \o S_is_required] >>
     ELSE <<>>)
    \o
    (IF fieldType = S_email
     THEN << [type |-> S_email, message |-> S_valid_email] >>
     ELSE <<>>)
    \o
    (IF fieldType = S_number \/ fieldType = S_currency_input
     THEN << [type |-> S_min, value |-> Num(0), message |-> S_not_negative] >>
     ELSE <<>>)

inferTransformationType(dbMapping, fieldType) ==
    IF fieldType = S_currency_input /\ includes(dbMapping, S_Balance)
    THEN S_amount_object
    ELSE S_plain_value

\* mutant: the fragment "premium" given a tag of its own
arrayItemTypeOf_PremiumTag(fieldName) ==
    LET name == toLowerCase(fieldName) IN
    IF includes(name, S_deductible) THEN S_DEDUCTIBLE
    ELSE IF includes(name, S_premium) THEN toUpperCase(S_premium)
    ELSE S_empty

arrayItemTypeOf(fieldName) ==
    LET name == toLowerCase(fieldName) IN
    IF includes(name, S_deductible) THEN S_DEDUCTIBLE
    ELSE IF includes(name, S_copay) THEN S_COPAY
    ELSE IF includes(name, S_coinsurance) THEN S_COINSURANCE
    ELSE IF includes(name, S_oop) \/ includes(name, S_out_of_pocket) THEN S_OOP_MAX
    ELSE S_empty

parseOutputTransform(row, fieldType) ==
    LET transformationType == inferTransformationType(row.DB_mapping, fieldType) IN
    IF transformationType = S_amount_object
    THEN [enabled |-> TRUE,
          output_field_path |-> row.DB_mapping,
          transformation_type |-> transformationType,
          array_item_property |-> S_empValue,
          array_item_type |-> arrayItemTypeOf(row.field_name),
          create_array_item |-> TRUE]
    ELSE [enabled |-> TRUE,
          output_field_path |-> row.DB_mapping,
          transformation_type |-> transformationType]

\* the (word, index) => ... callback of generateConfigFromRow
camelWord(word, index) ==
    IF index = 0 THEN toLowerCase(word)
    ELSE IF word = <<>> THEN <<>>
    ELSE <<toUpperCaseCh(word[1])>> \o toLowerCase(Tail(word))

fieldNameCamelOf(fieldName) ==
    LET words == splitWhitespace(stripNonAlnum(fieldName)) IN
    joinWords([i \in 1..Len(words) |-> camelWord(words[i], i - 1)])

\* value || undefined, for a string value
orUndefined(s) == IF s = <<>> THEN Undefined ELSE s

generateConfigFromRow(row) ==
    LET fieldType == inferFieldType(row.field_name)
        validationRules == inferValidationRules(row.field_name, fieldType, TRUE)
        outputTransform == parseOutputTransform(row, fieldType)
    IN  [type |-> toUpperCase(row.plan_type),
         subType |-> S_field,
         module |-> S_CPQ,
         field |-> [name |-> fieldNameCamelOf(row.field_name),
                    type |-> fieldType,
                    ui_config |-> [label |-> row.field_name,
                                   placeholder |-> IF fieldType = S_currency_input
                                                   THEN S_zero_placeholder
                                                   ELSE row.field_name,
                                   order |-> row.order],
                    validation_rules |-> validationRules,
                    options |-> <<>>,
                    output_transform |-> outputTransform],
         screen_contexts |-> << [screen |-> row.screen_name,
                                 section |-> row.section,
                                 sub_section |-> orUndefined(row.subsection),
                                 order |-> row.order,
                                 disabled |-> FALSE] >>]

\* mutant: the screen name made part of the key
fieldKeyOf_WithScreen(row) ==
    row.field_name \o S_underscore \o row.plan_type \o S_underscore \o row.screen_name

fieldKeyOf(row) == row.field_name \o S_underscore \o row.plan_type

\* mutant: unshift instead of push
pushScreenContext_Unshift(contexts, row) ==
    << [screen |-> row.screen_name,
        section |-> row.section,
        sub_section |-> orUndefined(row.subsection),
        order |-> row.order,
        disabled |-> FALSE] >> \o contexts

\* existingConfig.screen_contexts.push({...})
pushScreenContext(contexts, row) ==
    Append(contexts, [screen |-> row.screen_name,
                      section |-> row.section,
                      sub_section |-> orUndefined(row.subsection),
                      order |-> row.order,
                      disabled |-> FALSE])

\* mutant: a later row of a key replaces the record by the one derived from
\* it, the screen contexts kept and extended
forEachRow_Replace(st, row) ==
    LET fieldKey == fieldKeyOf(row) IN
    IF fieldKey \in DOMAIN st.fieldMap
    THEN [st EXCEPT !.configs[st.fieldMap[fieldKey]] =
                        [generateConfigFromRow(row) EXCEPT !.screen_contexts =
                            pushScreenContext(
                                st.configs[st.fieldMap[fieldKey]].screen_contexts, row)]]
    ELSE [configs |-> Append(st.configs, generateConfigFromRow(row)),
          fieldMap |-> (fieldKey :> (Len(st.configs) + 1)) @@ st.fieldMap]


\* The body of rows.forEach in generateAllConfigs.  st.fieldMap maps a key to
\* the position in st.configs of the record the Map holds a reference to.
forEachRow(st, row) ==
    LET fieldKey == fieldKeyOf(row) IN
    IF fieldKey \in DOMAIN st.fieldMap
    THEN [st EXCEPT !.configs[st.fieldMap[fieldKey]].screen_contexts =
                        pushScreenContext(@, row)]
    ELSE [configs |-> Append(st.configs, generateConfigFromRow(row)),
          fieldMap |-> (fieldKey :> (Len(st.configs) + 1)) @@ st.fieldMap]

RECURSIVE forEachRows(_, _)
forEachRows(st, rs) ==
    IF rs = <<>> THEN st ELSE forEachRows(forEachRow(st, Head(rs)), Tail(rs))

generateAllConfigs(rs) ==
    forEachRows([configs |-> <<>>, fieldMap |-> <<>>], rs).configs

-----------------------------------------------------------------------------
(* The synthesizer as a state machine                                      *)

MaxRows == 3
MaxRuns == 2

S_A == <<"A">>
S_A_B == <<"A","_","B">>
S_C == <<"C">>
S_B_C == <<"B","_","C">>
S_s == <<"s">>
S_u == <<"u">>
S_x == <<"x">>
S_create == <<"c","r","e","a","t","e">>
S_edit == <<"e","d","i","t">>
S_NO == <<"N","O">>
S_YES == <<"Y","E","S">>

\* Rows that differ in the grouping key and in the screen context.
GroupingKeys == { <<S_A, S_C>>, <<S_A_B, S_C>>, <<S_A, S_B_C>> }
GroupingRows ==
    { [section |-> S_s, subsection |-> sub, field_name |-> k[1],
       order |-> Num(IF scr = S_create THEN 1 ELSE 2), screen_name |-> scr,
       DB_mapping |-> S_x, is_computed |-> S_NO, formula |-> S_empty,
       plan_type |-> k[2]] :
      k \in GroupingKeys, scr \in {S_create, S_edit}, sub \in {S_empty, S_u} }

SeqsUpTo(S, n) == UNION { [1..m -> S] : m \in 0..n }

SynthInit ==
    /\ rows \in SeqsUpTo(GroupingRows, MaxRows)
    /\ configs = <<>>
    /\ runs = 0
    /\ ExcelIdle /\ SortIdle /\ WalkIdle /\ Ui1Idle /\ Ui2Idle

\* UI2 handleProcess calls generateAllConfigs(rows); the rows are only read.
GenerateAllConfigs ==
    /\ runs < MaxRuns
    /\ configs' = generateAllConfigs(rows)
    /\ runs' = runs + 1
    /\ UNCHANGED <<rows, excelVars, sortVars, walkVars, ui1Vars, ui2Vars>>

SynthNext == GenerateAllConfigs
SpecSynth == SynthInit /\ [][SynthNext]_vars

-----------------------------------------------------------------------------
(* Synthesis of one row                                                    *)

S_Annual_Deductible == <<"A","n","n","u","a","l"," ","D","e","d","u","c","t","i","b","l","e">>
S_Monthly_Premium_Amount == <<"M","o","n","t","h","l","y"," ","P","r","e","m","i","u","m"," ","A","m","o","u","n","t">>
S_Email_Address == <<"E","m","a","i","l"," ","A","d","d","r","e","s","s">>
S_Deductible_Amount == <<"D","e","d","u","c","t","i","b","l","e"," ","A","m","o","u","n","t">>
S_Copay_Amount == <<"C","o","p","a","y"," ","A","m","o","u","n","t">>
S_Coinsurance_Amount == <<"C","o","i","n","s","u","r","a","n","c","e"," ","A","m","o","u","n","t">>
S_OOP_Max_Amount == <<"O","O","P"," ","M","a","x"," ","A","m","o","u","n","t">>
S_Out_Of_Pocket_Currency == <<"O","u","t"," ","O","f"," ","P","o","c","k","e","t"," ","C","u","r","r","e","n","c","y">>
S_Start_Date == <<"S","t","a","r","t"," ","D","a","t","e">>
S_Update_Amount == <<"U","p","d","a","t","e"," ","A","m","o","u","n","t">>
S_Phone == <<"P","h","o","n","e">>
S_Telephone_Number == <<"T","e","l","e","p","h","o","n","e"," ","N","u","m","b","e","r">>
S_Select_Plan == <<"S","e","l","e","c","t"," ","P","l","a","n">>
S_Dropdown_Count == <<"D","r","o","p","d","o","w","n"," ","C","o","u","n","t">>
S_Age == <<"A","g","e">>
S_Member_Count == <<"M","e","m","b","e","r"," ","C","o","u","n","t">>
S_Percent_Covered == <<"P","e","r","c","e","n","t"," ","C","o","v","e","r","e","d">>
S_Full_Name == <<"F","u","l","l"," ","N","a","m","e">>
S_Telephone_Email == <<"T","e","l","e","p","h","o","n","e"," ","E","m","a","i","l">>
S_Select_Phone == <<"S","e","l","e","c","t"," ","P","h","o","n","e">>
S_Percentage_Paid == <<"P","e","r","c","e","n","t","a","g","e"," ","P","a","i","d">>
S_Out_of_Pocket_Amount == <<"O","u","t","-","o","f","-","P","o","c","k","e","t"," ","A","m","o","u","n","t">>
S_Email_Date == <<"E","m","a","i","l"," ","D","a","t","e">>
S_Coverage_DeductibleBalance == <<"C","o","v","e","r","a","g","e",".","D","e","d","u","c","t","i","b","l","e","B","a","l","a","n","c","e">>
S_EmpValue_PremiumBalance == <<"E","m","p","V","a","l","u","e",".","P","r","e","m","i","u","m","B","a","l","a","n","c","e">>
S_Emp_Name == <<"E","m","p",".","N","a","m","e">>
S_emp_balance == <<"e","m","p",".","b","a","l","a","n","c","e">>
S_MEDICAL == <<"M","E","D","I","C","A","L">>

FieldNames ==
    { S_Annual_Deductible, S_Monthly_Premium_Amount, S_Email_Address,
      S_Deductible_Amount, S_Copay_Amount, S_Coinsurance_Amount, S_OOP_Max_Amount,
      S_Out_Of_Pocket_Currency, S_Start_Date, S_Update_Amount, S_Phone,
      S_Telephone_Number, S_Select_Plan, S_Dropdown_Count, S_Age, S_Member_Count,
      S_Percent_Covered, S_Full_Name, S_Email_Date, S_Telephone_Email,
      S_Select_Phone, S_Percentage_Paid, S_Out_of_Pocket_Amount }
DBColumns ==
    { S_Coverage_DeductibleBalance, S_EmpValue_PremiumBalance, S_Emp_Name,
      S_emp_balance, S_empty }

InferenceRows ==
    { [section |-> S_s, subsection |-> S_empty, field_name |-> n, order |-> Num(1),
       screen_name |-> S_create, DB_mapping |-> db, is_computed |-> S_NO,
       formula |-> S_empty, plan_type |-> S_MEDICAL] :
      n \in FieldNames, db \in DBColumns }

InferInit ==
    /\ rows \in { <<r>> : r \in InferenceRows }
    /\ configs = <<>>
    /\ runs = 0
    /\ ExcelIdle /\ SortIdle /\ WalkIdle /\ Ui1Idle /\ Ui2Idle

\* one call generateConfigFromRow(row)
GenerateConfigFromRow ==
    /\ runs = 0
    /\ configs' = << generateConfigFromRow(rows[1]) >>
    /\ runs' = 1
    /\ UNCHANGED <<rows, excelVars, sortVars, walkVars, ui1Vars, ui2Vars>>

InferNext == GenerateConfigFromRow
SpecInfer == InferInit /\ [][InferNext]_vars

\* C10 as stated: synthesizing "Annual Deductible" with DB column
\* "Coverage.DeductibleBalance" yields type currency, an array-item transform
\* and item tag "DEDUCTIBLE".
C10_AnnualDeductibleCurrency ==
    (/\ runs = 1
     /\ rows[1].field_name = S_Annual_Deductible
     /\ rows[1].DB_mapping = S_Coverage_DeductibleBalance)
    => /\ configs[1].field.type = S_currency_input
       /\ configs[1].field.output_transform.transformation_type = S_amount_object
       /\ "array_item_type" \in DOMAIN configs[1].field.output_transform
       /\ configs[1].field.output_transform.array_item_type = S_DEDUCTIBLE

\* C10 amended: synthesizing "Annual Deductible" with DB column
\* "Coverage.DeductibleBalance" yields type text (no currency fragment occurs
\* in the name) and a plain-value transform to that column with no item tag.
C10_AnnualDeductibleText ==
    (/\ runs = 1
     /\ rows[1].field_name = S_Annual_Deductible
     /\ rows[1].DB_mapping = S_Coverage_DeductibleBalance)
    => /\ configs[1].field.type = S_text
       /\ configs[1].field.output_transform.transformation_type = S_plain_value
       /\ configs[1].field.output_transform.output_field_path =
              S_Coverage_DeductibleBalance
       /\ "array_item_type" \notin DOMAIN configs[1].field.output_transform

C10_Witness ==
    /\ runs = 1
    /\ rows[1].field_name = S_Annual_Deductible
    /\ rows[1].DB_mapping = S_Coverage_DeductibleBalance
    /\ Len(configs) = 1

\* C11: synthesizing "Monthly Premium Amount" with DB column
\* "EmpValue.PremiumBalance" yields type currency and an array-item transform
\* whose item tag is the empty string.
C11_MonthlyPremiumUntagged ==
    (/\ runs = 1
     /\ rows[1].field_name = S_Monthly_Premium_Amount
     /\ rows[1].DB_mapping = S_EmpValue_PremiumBalance)
    => /\ configs[1].field.type = S_currency_input
       /\ configs[1].field.output_transform.transformation_type = S_amount_object
       /\ configs[1].field.output_transform.output_field_path = S_EmpValue_PremiumBalance
       /\ "array_item_type" \in DOMAIN configs[1].field.output_transform
       /\ configs[1].field.output_transform.array_item_type = S_empty
       /\ configs[1].field.output_transform.create_array_item

C11_Witness ==
    /\ runs = 1
    /\ rows[1].field_name = S_Monthly_Premium_Amount
    /\ rows[1].DB_mapping = S_EmpValue_PremiumBalance
    /\ configs[1].field.output_transform.transformation_type = S_amount_object

\* the fragment groups in their priority order, each with its type
FragmentGroups ==
    << [fragments |-> {S_currency, S_amount, S_premium}, type |-> S_currency_input],
       [fragments |-> {S_date}, type |-> S_date],
       [fragments |-> {S_email}, type |-> S_email],
       [fragments |-> {S_phone, S_tel}, type |-> S_tel],
       [fragments |-> {S_dropdown, S_select}, type |-> S_customSelect],
       [fragments |-> {S_number, S_count, S_age}, type |-> S_number],
       [fragments |-> {S_percent}, type |-> S_percentage] >>
\* the groups that have a fragment occurring in the name, letter case ignored
GroupsOccurring(fieldName) ==
    { g \in DOMAIN FragmentGroups :
        \E f \in FragmentGroups[g].fragments : includes(toLowerCase(fieldName), f) }

\* C23: for every field name the inferred type is the type of the first group,
\* in the order currency, date, email, phone, dropdown, numeric, percentage,
\* that has a fragment occurring in the name whatever its letter case, and free
\* text when no group has one.
C23_FirstMatchingGroup ==
    runs = 1 =>
        LET occurring == GroupsOccurring(rows[1].field_name) IN
        /\ occurring = {} => configs[1].field.type = S_text
        /\ \A g \in occurring :
               (\A h \in occurring : g <= h)
               => configs[1].field.type = FragmentGroups[g].type

\* a name holding fragments of two groups ("Update Amount": amount and date)
\* has been given the type of the earlier group
C23_Witness ==
    /\ runs = 1
    /\ rows[1].field_name = S_Update_Amount
    /\ GroupsOccurring(rows[1].field_name) = {1, 2}
    /\ configs[1].field.type = S_currency_input

\* the types of the rules of a list, in order
RuleTypes(rules) == [i \in DOMAIN rules |-> rules[i].type]
HasRule(rules, type) == \E i \in DOMAIN rules : rules[i].type = type
\* the rules asked for with required = false, for the row of the state
OptionalRules ==
    inferValidationRules(rows[1].field_name, configs[1].field.type, FALSE)

\* C24: the validation rules of every synthesized record start with a
\* 'required' rule, hold an email-format rule exactly when the inferred type is
\* email and a minimum-0 rule exactly when it is numeric or currency; asked for
\* with required = false, the same rules come back without the 'required' rule.
C24_RulesAccumulate ==
    runs = 1 =>
        LET rules == configs[1].field.validation_rules
            type == configs[1].field.type
        IN  /\ Len(rules) >= 1
            /\ rules[1].type = S_required
            /\ \A i \in DOMAIN rules : i > 1 => rules[i].type # S_required
            /\ HasRule(rules, S_email) <=> type = S_email
            /\ HasRule(rules, S_min) <=> type \in {S_number, S_currency_input}
            /\ \A i \in DOMAIN rules :
                   rules[i].type = S_min => rules[i].value = Num(0)
            /\ ~HasRule(OptionalRules, S_required)
            /\ OptionalRules = Tail(rules)

\* a record of type email has been synthesized with the two rules required and
\* email, and the call with required = false leaves the email rule alone
C24_Witness ==
    /\ runs = 1
    /\ configs[1].field.type = S_email
    /\ RuleTypes(configs[1].field.validation_rules) = <<S_required, S_email>>
    /\ RuleTypes(OptionalRules) = <<S_email>>

S_out_hyphen_of_hyphen_pocket == <<"o","u","t","-","o","f","-","p","o","c","k","e","t">>
\* the keywords of the item tags: the out-of-pocket category in each of its
\* spellings
TagKeywords ==
    << [keywords |-> {S_deductible}, tag |-> S_DEDUCTIBLE],
       [keywords |-> {S_copay}, tag |-> S_COPAY],
       [keywords |-> {S_coinsurance}, tag |-> S_COINSURANCE],
       [keywords |-> {S_out_hyphen_of_hyphen_pocket, S_out_of_pocket, S_oop},
        tag |-> S_OOP_MAX] >>
TagsNamed(fieldName) ==
    { TagKeywords[k].tag : k \in
        { k \in DOMAIN TagKeywords :
            \E w \in TagKeywords[k].keywords : includes(toLowerCase(fieldName), w) } }

\* C25: the output transform is a plain-value mapping to the DB column unless
\* the type is currency and the DB column contains "Balance"; then it is an
\* array-item transform with item-value property "empValue" whose item tag is
\* the category tag of a keyword (deductible, copay, coinsurance,
\* out-of-pocket) contained in the field name, and the empty tag when the name
\* contains none of them.
C25_TransformAndItemTag ==
    runs = 1 =>
        LET transform == configs[1].field.output_transform
            arrayItem == /\ configs[1].field.type = S_currency_input
                         /\ includes(rows[1].DB_mapping, S_Balance)
            named == TagsNamed(rows[1].field_name)
        IN  /\ transform.output_field_path = rows[1].DB_mapping
            /\ ~arrayItem =>
                   /\ transform.transformation_type = S_plain_value
                   /\ "array_item_type" \notin DOMAIN transform
            /\ arrayItem =>
                   /\ transform.transformation_type = S_amount_object
                   /\ transform.array_item_property = S_empValue
                   /\ named # {} => transform.array_item_type \in named
                   /\ named = {} => transform.array_item_type = S_empty

-----------------------------------------------------------------------------
(* Records of rows that differ in letter case only                         *)

S_Fee_B == <<"F","e","e"," ","B">>
S_fee_b == <<"f","e","e"," ","b">>
S_Medical == <<"M","e","d","i","c","a","l">>

\* Rows whose field names and plan types differ in the case of their letters.
IdentityRows ==
    { [section |-> S_s, subsection |-> S_empty, field_name |-> name,
       order |-> Num(1), screen_name |-> scr,
       DB_mapping |-> S_x, is_computed |-> S_NO, formula |-> S_empty,
       plan_type |-> plan] :
      name \in {S_Fee_B, S_fee_b}, plan \in {S_MEDICAL, S_Medical},
      scr \in {S_create, S_edit} }

IdentityInit ==
    /\ rows \in SeqsUpTo(IdentityRows, MaxRows)
    /\ configs = <<>>
    /\ runs = 0
    /\ ExcelIdle /\ SortIdle /\ WalkIdle /\ Ui1Idle /\ Ui2Idle

SpecIdentity == IdentityInit /\ [][SynthNext]_vars

\* the identity of a record
IdentityOf(config) == << config.type, config.field.name >>

\* C27: generateAllConfigs returns no two records with the same identity
\* (type, field.name): two records at different places of the result differ in
\* the upper-cased plan type or in the lower-camel field name.
C27_IdentitiesDistinct ==
    runs > 0 =>
        \A i, j \in DOMAIN configs :
            i # j => IdentityOf(configs[i]) # IdentityOf(configs[j])

-----------------------------------------------------------------------------
(* Properties of generateAllConfigs                                        *)

PairOf(row) == <<row.field_name, row.plan_type>>
PairsOf(rs) == { PairOf(rs[i]) : i \in DOMAIN rs }
RowsWithPair(rs, p) == { i \in DOMAIN rs : PairOf(rs[i]) = p }
\* positions at which a (field_name, plan_type) pair is seen for the first time
FirstSeen(rs) ==
    { i \in DOMAIN rs : \A j \in 1..(i - 1) : PairOf(rs[j]) # PairOf(rs[i]) }

\* the screen context a row stands for
ContextOfRow(row) ==
    [screen |-> row.screen_name, section |-> row.section,
     sub_section |-> IF row.subsection = S_empty THEN Undefined ELSE row.subsection,
     order |-> row.order, disabled |-> FALSE]

\* the members of a set of positions, in increasing order
RECURSIVE Ascending(_)
Ascending(I) ==
    IF I = {} THEN <<>>
    ELSE LET m == CHOOSE x \in I : \A y \in I : x <= y
         IN  <<m>> \o Ascending(I \ {m})

ContextsAt(rs, I) ==
    LET idx == Ascending(I) IN [k \in 1..Len(idx) |-> ContextOfRow(rs[idx[k]])]

RECURSIVE SumOfLens(_)
SumOfLens(cs) ==
    IF cs = <<>> THEN 0 ELSE Len(Head(cs).screen_contexts) + SumOfLens(Tail(cs))

\* Record c was created from row r: its identity and its first context are r's.
CreatedFrom(c, r) ==
    /\ c.field.ui_config.label = r.field_name
    /\ c.type = toUpperCase(r.plan_type)
    /\ c.field.ui_config.order = r.order
    /\ c.screen_contexts[1] = ContextOfRow(r)

\* Records follow the first sightings of their keys, and the contexts of each
\* record follow the rows: record k starts at row g[k], a first sighting, the
\* g[k] increase with k, and the record's contexts are those of a set of rows
\* that begins at g[k] and holds every row with the key of row g[k], in row
\* order.
OrderPreserved(rs, cs) ==
    \E g \in [1..Len(cs) -> FirstSeen(rs)] :
        /\ \A k, l \in 1..Len(cs) : k < l => g[k] < g[l]
        /\ \A k \in 1..Len(cs) :
              /\ CreatedFrom(cs[k], rs[g[k]])
              /\ \E I \in SUBSET (g[k]..Len(rs)) :
                    /\ g[k] \in I
                    /\ RowsWithPair(rs, PairOf(rs[g[k]])) \subseteq I
                    /\ cs[k].screen_contexts = ContextsAt(rs, I)

RECURSIVE IsSubsequence(_, _)
IsSubsequence(a, b) ==
    IF a = <<>> THEN TRUE
    ELSE IF b = <<>> THEN FALSE
    ELSE IF Head(a) = Head(b) THEN IsSubsequence(Tail(a), Tail(b))
    ELSE IsSubsequence(a, Tail(b))

\* C5: rows sharing field_name and plan_type never produce two records: one
\* record holds one screen context for each of them, there are never more
\* records than distinct pairs, and the screen contexts of all records
\* together are as many as the rows.
C5_SameKeyOneRecord ==
    runs > 0 =>
        /\ \A p \in PairsOf(rows) :
              \E k \in DOMAIN configs :
                  IsSubsequence(ContextsAt(rows, RowsWithPair(rows, p)),
                                configs[k].screen_contexts)
        /\ Len(configs) <= Cardinality(PairsOf(rows))
        /\ (Cardinality(PairsOf(rows)) = 1 =>
               /\ Len(configs) = 1
               /\ configs[1].screen_contexts = ContextsAt(rows, DOMAIN rows))
        /\ SumOfLens(configs) = Len(rows)

C5_Witness ==
    /\ runs > 0
    /\ Len(rows) = 2
    /\ PairOf(rows[1]) = PairOf(rows[2])
    /\ rows[1].screen_name # rows[2].screen_name
    /\ Len(configs) = 1
    /\ Len(configs[1].screen_contexts) = 2

\* C6: rows whose (field_name, plan_type) pairs differ are never merged: every
\* record holds the screen contexts of the rows of one pair only, so there
\* are as many records as distinct pairs.
C6_DistinctPairsNeverMerged ==
    runs > 0 =>
        /\ Len(configs) = Cardinality(PairsOf(rows))
        /\ \A k \in DOMAIN configs :
              \E p \in PairsOf(rows) :
                  configs[k].screen_contexts = ContextsAt(rows, RowsWithPair(rows, p))

\* C7: no record holds two screen contexts with the same
\* (screen, section, sub_section) triple.
C7_DistinctScreenContexts ==
    runs > 0 =>
        \A k \in DOMAIN configs :
            \A i, j \in DOMAIN configs[k].screen_contexts :
                i # j =>
                    LET a == configs[k].screen_contexts[i]
                        b == configs[k].screen_contexts[j]
                    IN  <<a.screen, a.section, a.sub_section>> #
                        <<b.screen, b.section, b.sub_section>>

\* the records after the first n rows
ConfigsAfter(n) == generateAllConfigs(SubSeq(rows, 1, n))

\* the row after the first n creates a record: the record derived from it
\* is added at the end and no other record changes
CreatedAt(n) ==
    ConfigsAfter(n + 1) = Append(ConfigsAfter(n), generateConfigFromRow(rows[n + 1]))

\* the row after the first n is appended to a record: one record gains the
\* screen context of the row at its end, and nothing else changes
AppendedAt(n) ==
    \E p \in DOMAIN ConfigsAfter(n) :
       ConfigsAfter(n + 1) =
          [ConfigsAfter(n) EXCEPT ![p].screen_contexts = Append(@, ContextOfRow(rows[n + 1]))]

\* C20: a record is created at the first row of its key and afterwards only
\* appended to: every row either adds the record derived from it, whole, at
\* the end of the list, or adds its screen context at the end of one
\* existing record and changes nothing else; a row whose (field_name,
\* plan_type) pair was seen before is of the second sort.  So the field
\* spec and the first screen context of a record stay those of the row that
\* created it.
C20_CreatedOnceThenAppended ==
    runs > 0 =>
      /\ configs = ConfigsAfter(Len(rows))
      /\ \A n \in 0..(Len(rows) - 1) :
            /\ CreatedAt(n) \/ AppendedAt(n)
            /\ (n + 1) \notin FirstSeen(rows) => AppendedAt(n)

\* three rows, the third of the pair of the first with another screen and
\* another order: the first record has the order of the first row and two
\* screen contexts
C20_Witness ==
    /\ runs > 0
    /\ Len(rows) = 3
    /\ PairOf(rows[1]) = PairOf(rows[3])
    /\ PairOf(rows[1]) # PairOf(rows[2])
    /\ rows[1].order # rows[3].order
    /\ configs[1].field.ui_config.order = rows[1].order
    /\ configs[1].screen_contexts = << ContextOfRow(rows[1]), ContextOfRow(rows[3]) >>

-----------------------------------------------------------------------------
(* Consolidated sheet: export and import                                   *)

\* A cell value as the workbook holds it: nothing, a string or a number.
CellNull == [kind |-> "null"]
CellStr(s) == [kind |-> "string", text |-> s]
CellNum(n) == [kind |-> "number", number |-> n]

S_zero == <<"0">>
S_minus == <<"-">>
S_plus == <<"+">>
S_DENTAL == <<"D","E","N","T","A","L">>
S_Section == <<"S","e","c","t","i","o","n">>
S_Subsection == <<"S","u","b","s","e","c","t","i","o","n">>
S_Field_Name == <<"F","i","e","l","d"," ","N","a","m","e">>
S_Order == <<"O","r","d","e","r">>
S_Screen_Name == <<"S","c","r","e","e","n"," ","N","a","m","e">>
S_DB_Mapping == <<"D","B"," ","M","a","p","p","i","n","g">>
S_Is_Computed == <<"I","s"," ","C","o","m","p","u","t","e","d">>
S_Formula == <<"F","o","r","m","u","l","a">>
S_Plan_Type == <<"P","l","a","n"," ","T","y","p","e">>

\* worksheet.columns = [...]: the header row
headerRow ==
    << CellStr(S_Section), CellStr(S_Subsection), CellStr(S_Field_Name),
       CellStr(S_Order), CellStr(S_Screen_Name), CellStr(S_DB_Mapping),
       CellStr(S_Is_Computed), CellStr(S_Formula), CellStr(S_Plan_Type) >>

\* worksheet.addRow(row): the row's properties in the order of the column keys
addRow(row) ==
    << CellStr(row.section), CellStr(row.subsection), CellStr(row.field_name),
       CellNum(row.order.v), CellStr(row.screen_name), CellStr(row.DB_mapping),
       CellStr(row.is_computed), CellStr(row.formula), CellStr(row.plan_type) >>

\* A cell after writeBuffer and load.  The workbook library may hand an empty
\* string back as an empty cell; emptyAsNull says which.
loadedCell(cell, emptyAsNull) ==
    IF emptyAsNull /\ cell.kind = "string" /\ cell.text = S_empty
    THEN CellNull
    ELSE cell

generateConsolidatedExcel(rs, emptyAsNull) ==
    << headerRow >> \o
    [i \in 1..Len(rs) |->
        [c \in 1..9 |-> loadedCell(addRow(rs[i])[c], emptyAsNull)]]

\* Number.prototype.toString for an integer
RECURSIVE digitsOf(_)
digitsOf(n) ==
    IF n < 10 THEN << Digits[n + 1] >>
    ELSE digitsOf(n \div 10) \o << Digits[(n % 10) + 1] >>
numberToString(n) == IF n < 0 THEN S_minus \o digitsOf(0 - n) ELSE digitsOf(n)

\* cell.value?.toString()
valueToString(cell) ==
    IF cell.kind = "null" THEN Undefined
    ELSE IF cell.kind = "number" THEN numberToString(cell.number)
    ELSE cell.text

\* mutant: the text of the cell taken as it stands
trimmedOr_Untrimmed(cell, dflt) ==
    LET s == valueToString(cell) IN
    IF s = Undefined THEN dflt
    ELSE IF s = S_empty THEN dflt
    ELSE s

\* cell.value?.toString().trim() || dflt
trimmedOr(cell, dflt) ==
    LET s == valueToString(cell) IN
    IF s = Undefined THEN dflt
    ELSE IF trim(s) = S_empty THEN dflt
    ELSE trim(s)

\* the value of the longest prefix of digits of s, read after acc
RECURSIVE digitsValue(_, _)
digitsValue(s, acc) ==
    IF s = <<>> \/ ~IsDigitCh(Head(s)) THEN acc
    ELSE digitsValue(Tail(s),
                     10 * acc + (CHOOSE i \in DOMAIN Digits : Digits[i] = Head(s)) - 1)

\* parseInt(s): leading whitespace, an optional sign, then digits up to the
\* first other character; NaN when no digit is there.
parseInt(s) ==
    LET t == trimStart(s)
        signed == t # <<>> /\ (Head(t) = "-" \/ Head(t) = "+")
        body == IF signed THEN Tail(t) ELSE t
    IN  IF body = <<>> \/ ~IsDigitCh(Head(body)) THEN NaN
        ELSE IF signed /\ Head(t) = "-" THEN Num(0 - digitsValue(body, 0))
        ELSE Num(digitsValue(body, 0))

\* parseInt(row.getCell(4).value?.toString() || '0')
parseOrder(cell) ==
    LET s == valueToString(cell) IN
    IF s = Undefined \/ s = S_empty THEN parseInt(S_zero) ELSE parseInt(s)

\* the ConsolidatedRow built from one sheet row
consolidatedRowOf(cells) ==
    [section |-> trimmedOr(cells[1], S_empty),
     subsection |-> trimmedOr(cells[2], S_empty),
     field_name |-> trimmedOr(cells[3], S_empty),
     order |-> parseOrder(cells[4]),
     screen_name |-> trimmedOr(cells[5], S_create),
     DB_mapping |-> trimmedOr(cells[6], S_empty),
     is_computed |-> trimmedOr(cells[7], S_NO),
     formula |-> trimmedOr(cells[8], S_empty),
     plan_type |-> trimmedOr(cells[9], S_MEDICAL)]

\* worksheet.eachRow: row 1 is skipped, a row is kept when its field_name is
\* not empty.
RECURSIVE eachRowFrom(_, _)
eachRowFrom(sheet, rowNumber) ==
    IF rowNumber > Len(sheet) THEN <<>>
    ELSE LET consolidatedRow == consolidatedRowOf(sheet[rowNumber])
             rest == eachRowFrom(sheet, rowNumber + 1)
         IN  IF rowNumber = 1 THEN rest
             ELSE IF consolidatedRow.field_name # S_empty
                  THEN << consolidatedRow >> \o rest
                  ELSE rest

parseConsolidatedExcel(sheet) == eachRowFrom(sheet, 1)

-----------------------------------------------------------------------------
(* Export and import as a state machine                                    *)

MaxExportRows == 2
MaxSheetRows == 1

S_a == <<"a">>
S_a_padded == <<" ","a"," ">>
S_blank == <<" ">>
S_b == <<"b">>
S_b_padded == <<" ","b">>
S_seven == <<"7">>
S_abc == <<"a","b","c">>
S_four_padded == <<" ","4">>
S_one_x == <<"1","x">>

\* Rows to export: field names and texts that are plain, padded with
\* whitespace, whitespace-only or empty, and enumerated columns that are
\* filled or empty.
ExportRows ==
    { [section |-> txt, subsection |-> txt, field_name |-> n,
       order |-> Num(IF txt = S_empty THEN 0 ELSE 12),
       screen_name |-> e[1], DB_mapping |-> txt, is_computed |-> e[2],
       formula |-> txt, plan_type |-> e[3]] :
      n \in {S_a, S_a_padded, S_blank},
      txt \in {S_b, S_b_padded, S_empty},
      e \in { <<S_edit, S_YES, S_DENTAL>>, <<S_empty, S_empty, S_empty>> } }

\* Rows of a sheet a user uploads: any cell may be missing, and the Order
\* cell holds a number or any text.
OrderCells ==
    { CellNull, CellNum(3), CellNum(0 - 2), CellStr(S_seven), CellStr(S_abc),
      CellStr(S_empty), CellStr(S_four_padded), CellStr(S_one_x) }
UploadedSheetRows ==
    { << txt, txt, n, o, e[1], txt, txt, txt, e[2] >> :
      n \in {CellStr(S_a), CellStr(S_blank), CellNull},
      o \in OrderCells,
      txt \in {CellStr(S_b_padded), CellNull},
      e \in { <<CellStr(S_edit), CellStr(S_DENTAL)>>,
              <<CellStr(S_blank), CellStr(S_empty)>>,
              <<CellNull, CellNull>> } }

ExcelInit ==
    /\ SynthIdle /\ SortIdle /\ WalkIdle /\ Ui1Idle /\ Ui2Idle
    /\ parsedRows = <<>>
    /\ \/ /\ excelPc = "start"
          /\ rows \in SeqsUpTo(ExportRows, MaxExportRows)
          /\ worksheet = <<>>
       \/ /\ excelPc = "uploaded"
          /\ rows = <<>>
          /\ worksheet \in { << headerRow >> \o s :
                               s \in SeqsUpTo(UploadedSheetRows, MaxSheetRows) }

\* UI1 handleExport: generateConsolidatedExcel(consolidatedRows), the file
\* then being the one given to UI2
GenerateConsolidatedExcel ==
    /\ excelPc = "start"
    /\ \E emptyAsNull \in BOOLEAN :
          worksheet' = generateConsolidatedExcel(rows, emptyAsNull)
    /\ excelPc' = "exported"
    /\ UNCHANGED <<synthVars, parsedRows, sortVars, walkVars, ui1Vars, ui2Vars>>

\* UI2 handleProcess: parseConsolidatedExcel(excelFile)
ParseConsolidatedExcel ==
    /\ excelPc \in {"exported", "uploaded"}
    /\ parsedRows' = parseConsolidatedExcel(worksheet)
    /\ excelPc' = IF excelPc = "exported" THEN "parsedExport" ELSE "parsedUpload"
    /\ UNCHANGED <<synthVars, worksheet, sortVars, walkVars, ui1Vars, ui2Vars>>

ExcelNext == GenerateConsolidatedExcel \/ ParseConsolidatedExcel
SpecExcel == ExcelInit /\ [][ExcelNext]_vars

TextFields ==
    {"section", "subsection", "field_name", "screen_name", "DB_mapping",
     "is_computed", "formula", "plan_type"}

\* C8 as stated: export followed by import reproduces the rows, in the same
\* number and field by field, except that an empty or whitespace-only field
\* is read back as the empty string.
C8_RoundTripExact ==
    excelPc = "parsedExport" =>
        /\ Len(parsedRows) = Len(rows)
        /\ \A i \in DOMAIN rows :
              /\ parsedRows[i].order = rows[i].order
              /\ \A f \in TextFields :
                    parsedRows[i][f] =
                        IF trim(rows[i][f]) = S_empty THEN S_empty ELSE rows[i][f]

\* what a row is read back as
ReadBack(r) ==
    LET text(f) == trim(r[f])
        textOr(f, dflt) == IF trim(r[f]) = S_empty THEN dflt ELSE trim(r[f])
    IN  [section |-> text("section"), subsection |-> text("subsection"),
         field_name |-> text("field_name"), order |-> r.order,
         screen_name |-> textOr("screen_name", S_create),
         DB_mapping |-> text("DB_mapping"),
         is_computed |-> textOr("is_computed", S_NO),
         formula |-> text("formula"),
         plan_type |-> textOr("plan_type", S_MEDICAL)]

RECURSIVE ReadBackAll(_)
ReadBackAll(rs) ==
    IF rs = <<>> THEN <<>>
    ELSE IF trim(Head(rs).field_name) = S_empty THEN ReadBackAll(Tail(rs))
    ELSE << ReadBack(Head(rs)) >> \o ReadBackAll(Tail(rs))

\* C8 amended: export followed by import yields, in order, the rows whose
\* field name is not empty or whitespace-only; every text field is read back
\* without its surrounding whitespace, an empty or whitespace-only
\* screen_name, is_computed or plan_type as 'create', 'NO' or 'MEDICAL', any
\* other empty or whitespace-only field as the empty string, and the
\* (integer) order unchanged.
C8_RoundTripUpToTrimAndDefaults ==
    excelPc = "parsedExport" => parsedRows = ReadBackAll(rows)

C8_Witness ==
    /\ excelPc = "parsedExport"
    /\ Len(rows) = 2
    /\ Len(parsedRows) = 2
    /\ rows[1].field_name = S_a_padded
    /\ rows[1].screen_name = S_empty
    /\ rows[2].section = S_b
    /\ parsedRows[2] = rows[2]

\* the sheet rows (row numbers from 2) that the import keeps
KeptSheetRows(sheet) ==
    { n \in 2..Len(sheet) :
        sheet[n][3].kind # "null" /\ trim(valueToString(sheet[n][3])) # S_empty }

\* The Order cell can be parsed as a number: it is a number, or a text that,
\* surrounding whitespace aside, is an optional sign and digits.
RECURSIVE AllDigits(_)
AllDigits(s) == s = <<>> \/ (IsDigitCh(Head(s)) /\ AllDigits(Tail(s)))
ParsesAsNumber(cell) ==
    \/ cell.kind = "number"
    \/ /\ cell.kind = "string"
       /\ LET t == trim(cell.text)
              body == IF t # <<>> /\ Head(t) \in {"-", "+"} THEN Tail(t) ELSE t
          IN  body # <<>> /\ AllDigits(body)

CellMissing(cell) ==
    cell.kind = "null" \/ (cell.kind = "string" /\ trim(cell.text) = S_empty)

\* C9: every imported row has an order that is a non-negative integer, 0
\* whenever the Order cell cannot be parsed as a number; a missing Screen
\* Name becomes 'create' and a missing Plan Type becomes 'MEDICAL'.
C9_ImportDefaults ==
    excelPc \in {"parsedExport", "parsedUpload"} =>
        LET kept == Ascending(KeptSheetRows(worksheet)) IN
        /\ Len(parsedRows) = Len(kept)
        /\ \A k \in DOMAIN parsedRows :
              LET cells == worksheet[kept[k]]
                  r == parsedRows[k]
              IN  /\ ~r.order.nan /\ r.order.v >= 0
                  /\ (~ParsesAsNumber(cells[4]) => r.order = Num(0))
                  /\ (CellMissing(cells[5]) => r.screen_name = S_create)
                  /\ (CellMissing(cells[9]) => r.plan_type = S_MEDICAL)

-----------------------------------------------------------------------------
(* Design nodes                                                            *)

\* absoluteBoundingBox: absent, or the position of the node
NoBox == [hasBox |-> FALSE, x |-> 0, y |-> 0]
Box(x, y) == [hasBox |-> TRUE, x |-> x, y |-> y]

\* A FigmaNode.  characters is Undefined when absent; hasChildren tells
\* whether the children property is present (an array, possibly empty).
Node(id, name, type, characters, hasChildren, children, box) ==
    [id |-> id, name |-> name, type |-> type, characters |-> characters,
     hasChildren |-> hasChildren, children |-> children,
     absoluteBoundingBox |-> box]

-----------------------------------------------------------------------------
(* sortFieldsByPosition                                                    *)

rowTolerance == 20

Abs(n) == IF n < 0 THEN 0 - n ELSE n

\* the comparator given to Array.prototype.sort
compareByPosition(a, b) ==
    LET aBox == a.absoluteBoundingBox
        bBox == b.absoluteBoundingBox
    IN  IF ~aBox.hasBox \/ ~bBox.hasBox THEN 0
        ELSE LET rowDiff == aBox.y - bBox.y
             IN  IF Abs(rowDiff) > rowTolerance THEN rowDiff
                 ELSE aBox.x - bBox.x

\* The comparator is a consistent comparator for the elements (ECMAScript,
\* Array.prototype.sort): the conditions that make "equal" an equivalence
\* and "less" a strict order compatible with it.
ConsistentComparator(list) ==
    LET E == { list[i] : i \in DOMAIN list }
        lt(a, b) == compareByPosition(a, b) < 0
        eq(a, b) == compareByPosition(a, b) = 0
        gt(a, b) == compareByPosition(a, b) > 0
    IN  /\ \A a \in E : eq(a, a)
        /\ \A a, b \in E : /\ (eq(a, b) => eq(b, a))
                            /\ (lt(a, b) => gt(b, a))
                            /\ (gt(a, b) => lt(b, a))
        /\ \A a, b, c \in E : /\ ((eq(a, b) /\ eq(b, c)) => eq(a, c))
                               /\ ((lt(a, b) /\ lt(b, c)) => lt(a, c))
                               /\ ((gt(a, b) /\ gt(b, c)) => gt(a, c))

\* x put into the sorted sequence s behind everything that is not greater
RECURSIVE insertSorted(_, _)
insertSorted(s, x) ==
    IF s = <<>> THEN << x >>
    ELSE IF compareByPosition(x, Head(s)) < 0 THEN << x >> \o s
    ELSE << Head(s) >> \o insertSorted(Tail(s), x)

RECURSIVE stableSort(_)
stableSort(list) ==
    IF list = <<>> THEN <<>>
    ELSE insertSorted(stableSort(SubSeq(list, 1, Len(list) - 1)), list[Len(list)])

ArrangementsOf(list) ==
    { [i \in 1..Len(list) |-> list[f[i]]] :
      f \in { g \in [1..Len(list) -> 1..Len(list)] :
                \A i, j \in 1..Len(list) : i # j => g[i] # g[j] } }

\* The arrays fieldGroups.sort(comparator) can leave: the stable sorted order
\* when the comparator is consistent, and otherwise an order the engine
\* chooses (implementation-defined in ECMAScript).
sortFieldsByPosition(groups) ==
    IF ConsistentComparator(groups) THEN { stableSort(groups) }
    ELSE ArrangementsOf(groups)

-----------------------------------------------------------------------------
(* sortFieldsByPosition as a state machine                                 *)

MaxGroups == 3

S_Field == <<"F","i","e","l","d">>

BoxXs == {0, 5, 10}
BoxYs == {0, 15, 30}
Boxes == {NoBox} \cup { Box(x, y) : x \in BoxXs, y \in BoxYs }

\* The groups of a batch: the id of a group is its place in the array that
\* findFieldGroups returned.
GroupLists ==
    { [i \in 1..Len(b) |-> Node(i, S_Field, "FRAME", Undefined, TRUE, <<>>, b[i])] :
      b \in SeqsUpTo(Boxes, MaxGroups) }

SortInit ==
    /\ SynthIdle /\ ExcelIdle /\ WalkIdle /\ Ui1Idle /\ Ui2Idle
    /\ rows = <<>>
    /\ fieldGroups \in GroupLists
    /\ sortedFields = <<>>
    /\ sortPc = "start"

\* const sortedFields = sortFieldsByPosition(fieldGroups): the array is
\* sorted in place and returned.
SortFieldsByPosition ==
    /\ sortPc = "start"
    /\ \E sorted \in sortFieldsByPosition(fieldGroups) :
          /\ fieldGroups' = sorted
          /\ sortedFields' = sorted
    /\ sortPc' = "sorted"
    /\ UNCHANGED <<synthVars, excelVars, walkVars, ui1Vars, ui2Vars>>

SortNext == SortFieldsByPosition

SpecSort == SortInit /\ [][SortNext]_vars

\* C3: sortFieldsByPosition is stable and total: in the output, two groups
\* with bounding boxes whose vertical positions differ by at most 20 have the
\* one with the smaller horizontal position first, two whose vertical
\* positions differ by more than 20 have the one with the smaller vertical
\* position first, and groups without spatial data keep their original
\* relative order.
C3_StableTotalOrder ==
    sortPc = "sorted" =>
      \A i, j \in DOMAIN sortedFields :
        i < j =>
          LET a == sortedFields[i]
              b == sortedFields[j]
              aBox == a.absoluteBoundingBox
              bBox == b.absoluteBoundingBox
          IN  /\ (aBox.hasBox /\ bBox.hasBox /\ Abs(aBox.y - bBox.y) <= 20)
                    => aBox.x <= bBox.x
              /\ (aBox.hasBox /\ bBox.hasBox /\ Abs(aBox.y - bBox.y) > 20)
                    => aBox.y < bBox.y
              /\ (~aBox.hasBox /\ ~bBox.hasBox) => a.id < b.id

-----------------------------------------------------------------------------
(* Regular expressions of the tree walk                                    *)

\* the alternatives of the case-insensitive patterns, in lower case
R_section == <<"s","e","c","t","i","o","n">>
R_subsection == <<"s","u","b","s","e","c","t","i","o","n">>
R_sub_section == <<"s","u","b","-","s","e","c","t","i","o","n">>
R_special == <<"s","p","e","c","i","a","l">>
R_create == <<"c","r","e","a","t","e">>
R_view == <<"v","i","e","w">>
R_edit == <<"e","d","i","t">>
R_delete == <<"d","e","l","e","t","e">>
R_label == <<"l","a","b","e","l">>
R_input == <<"i","n","p","u","t">>
R_dropdown == <<"d","r","o","p","d","o","w","n">>
R_select == <<"s","e","l","e","c","t">>
R_textbox == <<"t","e","x","t","b","o","x">>
R_field == <<"f","i","e","l","d">>
R_form_control == <<"f","o","r","m","-","c","o","n","t","r","o","l">>
R_enter == <<"e","n","t","e","r">>
R_choose == <<"c","h","o","o","s","e">>
R_in_network == <<"i","n"," ","n","e","t","w","o","r","k">>
R_out_of_network == <<"o","u","t"," ","o","f"," ","n","e","t","w","o","r","k">>
R_other == <<"o","t","h","e","r">>

\* a value that is neither undefined, null nor the empty string
Truthy(v) == v # Undefined /\ v # Null /\ v # <<>>

\* the characters . does not match
IsLineTerminator(c) == c \in {"\n", "\r"}
\* the class [:\s]
IsSeparatorCh(c) == c = ":" \/ IsSpaceCh(c)

SetMin(S) == CHOOSE m \in S : \A n \in S : m <= n
SetMax(S) == CHOOSE m \in S : \A n \in S : m >= n

\* word, ignoring case, stands in s at position i
matchesAt(s, i, word) ==
    /\ i + Len(word) - 1 <= Len(s)
    /\ toLowerCase(SubSeq(s, i, i + Len(word) - 1)) = word

\* /w1|w2|.../i matches somewhere in s
testAny(s, words) ==
    \E i \in 1..Len(s) : \E k \in DOMAIN words : matchesAt(s, i, words[k])

\* /^(w1|w2|...)/i matches s
testPrefix(s, words) == \E k \in DOMAIN words : matchesAt(s, 1, words[k])

\* s.match(/(w1|w2|...)/i)[1].toLowerCase(), Null without a match
firstWord(s, words) ==
    LET starts == { i \in 1..Len(s) : \E k \in DOMAIN words : matchesAt(s, i, words[k]) }
    IN  IF starts = {} THEN Null
        ELSE LET i == SetMin(starts)
                 k == SetMin({ j \in DOMAIN words : matchesAt(s, i, words[j]) })
             IN  words[k]

\* the number of characters of [:\s] in s from position pos on
RECURSIVE separatorRun(_, _)
separatorRun(s, pos) ==
    IF pos <= Len(s) /\ IsSeparatorCh(s[pos]) THEN 1 + separatorRun(s, pos + 1) ELSE 0

\* the characters of s from pos up to the next line terminator
RECURSIVE lineFrom(_, _)
lineFrom(s, pos) ==
    IF pos > Len(s) \/ IsLineTerminator(s[pos]) THEN <<>>
    ELSE << s[pos] >> \o lineFrom(s, pos + 1)

\* [:\s]*(.+) matched from position pos: the group, Null without a match.
\* The greedy [:\s]* gives characters back until (.+) finds one to start on.
tailCapture(s, pos) ==
    LET ks == { k \in 0..separatorRun(s, pos) :
                  pos + k <= Len(s) /\ ~IsLineTerminator(s[pos + k]) }
    IN  IF ks = {} THEN Null ELSE lineFrom(s, pos + SetMax(ks))

\* s.match(/(?:w1|w2|...)[:\s]*(.+)/i)[1], Null without a match
captureAfter(s, words) ==
    LET hit(i, k) == /\ matchesAt(s, i, words[k])
                     /\ tailCapture(s, i + Len(words[k])) # Null
        starts == { i \in 1..Len(s) : \E k \in DOMAIN words : hit(i, k) }
    IN  IF starts = {} THEN Null
        ELSE LET i == SetMin(starts)
                 k == SetMin({ j \in DOMAIN words : hit(i, j) })
             IN  tailCapture(s, i + Len(words[k]))

\* /^[A-Z\s]+$/.test(s)
testUpperOrSpace(s) ==
    s # <<>> /\ \A i \in DOMAIN s : IsUpperCh(s[i]) \/ IsSpaceCh(s[i])

\* the (word, index) => ... callback of toCamelCase
capitalizeWord(word, index) ==
    IF index = 0 \/ word = <<>> THEN word
    ELSE << toUpperCaseCh(word[1]) >> \o Tail(word)

toCamelCase(text) ==
    LET words == splitWhitespace(stripNonAlnum(toLowerCase(text))) IN
    joinWords([i \in 1..Len(words) |-> capitalizeWord(words[i], i - 1)])

\* s.replace(/[\n\r]+/g, ' ')
RECURSIVE replaceLineBreaks(_, _)
replaceLineBreaks(s, i) ==
    IF i > Len(s) THEN <<>>
    ELSE IF IsLineTerminator(s[i])
         THEN IF i > 1 /\ IsLineTerminator(s[i - 1])
              THEN replaceLineBreaks(s, i + 1)
              ELSE << " " >> \o replaceLineBreaks(s, i + 1)
         ELSE << s[i] >> \o replaceLineBreaks(s, i + 1)

\* s.replace(/^(field|input|label)[:\s]+/i, '')
stripFieldPrefix(s) ==
    LET words == << R_field, R_input, R_label >>
        ks == { k \in DOMAIN words :
                  matchesAt(s, 1, words[k]) /\ separatorRun(s, Len(words[k]) + 1) > 0 }
    IN  IF ks = {} THEN s
        ELSE LET w == words[SetMin(ks)]
             IN  SubSeq(s, Len(w) + separatorRun(s, Len(w) + 1) + 1, Len(s))

cleanFieldName(name) == trim(replaceLineBreaks(stripFieldPrefix(name), 1))

-----------------------------------------------------------------------------
(* The tree walk                                                           *)

detectSection(node) ==
    LET text == trim(node.characters)
        isHeader == /\ node.type = "TEXT" /\ Truthy(node.characters)
                    /\ text = toUpperCase(text)
                    /\ Len(text) > 3
                    /\ testUpperOrSpace(text)
    IN  IF isHeader THEN toCamelCase(text)
        ELSE IF /\ testAny(node.name, << R_section >>)
                /\ ~testAny(node.name, << R_subsection, R_sub_section >>)
                /\ captureAfter(node.name, << R_section >>) # Null
             THEN toCamelCase(captureAfter(node.name, << R_section >>))
             ELSE Null

detectSubsection(node) ==
    LET words == << R_subsection, R_sub_section, R_special >>
        text == trim(node.characters)
    IN  IF testAny(node.name, words) /\ captureAfter(node.name, words) # Null
        THEN toCamelCase(captureAfter(node.name, words))
        ELSE IF /\ node.type = "TEXT" /\ Truthy(node.characters)
                /\ testPrefix(text, << R_special, R_in_network, R_out_of_network, R_other >>)
             THEN toCamelCase(text)
             ELSE Null

isFieldContainer(node) ==
    IF ~node.hasChildren \/ Len(node.children) = 0 THEN FALSE
    ELSE LET hasLabelChild ==
                 \E i \in DOMAIN node.children :
                    LET child == node.children[i] IN
                    child.type = "TEXT" \/ testAny(child.name, << R_label >>)
             hasInputChild ==
                 \E i \in DOMAIN node.children :
                    LET child == node.children[i] IN
                    \/ testAny(child.name,
                               << R_input, R_dropdown, R_select, R_textbox, R_field >>)
                    \/ child.type = "INSTANCE"
                    \/ child.type = "COMPONENT"
             nameIndicatesField ==
                 testAny(node.name,
                         << R_field, R_input, R_dropdown, R_select, R_form_control >>)
         IN  (hasLabelChild /\ hasInputChild) \/ nameIndicatesField

RECURSIVE findFieldGroups(_)
findFieldGroups(nodes) ==
    IF nodes = <<>> THEN <<>>
    ELSE LET node == Head(nodes) IN
         (IF isFieldContainer(node) THEN << node >>
          ELSE IF node.hasChildren THEN findFieldGroups(node.children)
          ELSE <<>>)
         \o findFieldGroups(Tail(nodes))

RECURSIVE extractFieldLabel(_)
RECURSIVE labelFromChildren(_, _)
extractFieldLabel(fieldGroup) ==
    IF ~fieldGroup.hasChildren THEN Null ELSE labelFromChildren(fieldGroup, 1)

\* the loop of extractFieldLabel from the i-th child on, and its fallback
labelFromChildren(fieldGroup, i) ==
    IF i > Len(fieldGroup.children) THEN cleanFieldName(fieldGroup.name)
    ELSE LET child == fieldGroup.children[i]
             label == trim(child.characters)
         IN  IF /\ child.type = "TEXT" /\ Truthy(child.characters)
                /\ label # <<>>
                /\ ~testPrefix(label, << R_select, R_enter, R_choose >>)
                /\ label # << "*" >>
             THEN label
             ELSE IF child.hasChildren /\ Truthy(extractFieldLabel(child))
                  THEN extractFieldLabel(child)
                  ELSE labelFromChildren(fieldGroup, i + 1)

\* the context a call starts with when none is given
EmptyContext == [section |-> Undefined, subsection |-> Undefined, screenName |-> Undefined]

\* mutant: a new section leaves the subsection as it is
detectContext_KeepSubsection(node, context) ==
    LET screenMatch == firstWord(node.name, << R_create, R_view, R_edit, R_delete >>)
        screenName == IF ~Truthy(context.screenName) /\ node.type = "FRAME"
                         /\ screenMatch # Null
                      THEN screenMatch ELSE context.screenName
        newSection == detectSection(node)
        section == IF Truthy(newSection) THEN newSection ELSE context.section
        newSubsection == detectSubsection(node)
        subsection == IF Truthy(newSubsection) /\ Truthy(section)
                      THEN newSubsection ELSE context.subsection
    IN  [section |-> section, subsection |-> subsection, screenName |-> screenName]

\* the context of extractFieldsFromNode after its three detections
detectContext(node, context) ==
    LET screenMatch == firstWord(node.name, << R_create, R_view, R_edit, R_delete >>)
        screenName == IF ~Truthy(context.screenName) /\ node.type = "FRAME"
                         /\ screenMatch # Null
                      THEN screenMatch ELSE context.screenName
        newSection == detectSection(node)
        section == IF Truthy(newSection) THEN newSection ELSE context.section
        resetSubsection == IF Truthy(newSection) THEN Undefined ELSE context.subsection
        newSubsection == detectSubsection(node)
        subsection == IF Truthy(newSubsection) /\ Truthy(section)
                      THEN newSubsection ELSE resetSubsection
    IN  [section |-> section, subsection |-> subsection, screenName |-> screenName]

\* the fields pushed by sortedFields.forEach, each with the ids of the node
\* that pushed it and of its field group
pushedFields(node, context, sortedGroups) ==
    LET pushed == [index \in 1..Len(sortedGroups) |->
                     [field |-> [section |-> context.section,
                                 subsection |-> IF Truthy(context.subsection)
                                                THEN context.subsection ELSE S_empty,
                                 fieldName |-> extractFieldLabel(sortedGroups[index]),
                                 order |-> index,
                                 screenName |-> IF Truthy(context.screenName)
                                                THEN context.screenName ELSE S_create],
                      emitter |-> [node |-> node.id, group |-> sortedGroups[index].id]]]
        HasName(p) == Truthy(p.field.fieldName)
    IN  SelectSeq(pushed, HasName)

\* mutant: the batch is emitted whether or not a section is set
emitBatch_WithoutSection(node, context) ==
    LET groups == findFieldGroups(node.children) IN
    IF Len(groups) > 0
    THEN { pushedFields(node, context, sorted) : sorted \in sortFieldsByPosition(groups) }
    ELSE { <<>> }

\* mutant: a node without a section takes the section of a heading among its
\* children
emitBatch_HeadingSection(node, context) ==
    LET headings == { i \in DOMAIN node.children :
                        Truthy(detectSection(node.children[i])) }
        ctx == IF ~Truthy(context.section) /\ headings # {}
               THEN [context EXCEPT !.section =
                        detectSection(node.children[CHOOSE i \in headings :
                                                      \A j \in headings : i <= j])]
               ELSE context
        groups == findFieldGroups(node.children)
    IN  IF Len(groups) > 0 /\ Truthy(ctx.section)
        THEN { pushedFields(node, ctx, sorted) : sorted \in sortFieldsByPosition(groups) }
        ELSE { <<>> }


\* the batch of a node with children: one outcome for each order the sort
\* can leave
emitBatch(node, context) ==
    LET groups == findFieldGroups(node.children) IN
    IF Len(groups) > 0 /\ Truthy(context.section)
    THEN { pushedFields(node, context, sorted) : sorted \in sortFieldsByPosition(groups) }
    ELSE { <<>> }

RECURSIVE extractFieldsFromNode(_, _)
RECURSIVE extractFromChildren(_, _, _)

\* the context object once a node and its subtree have been visited, were
\* the object handed down instead of a copy
RECURSIVE contextAfter(_, _)
RECURSIVE contextAfterChildren(_, _, _)
contextAfter(node, context) ==
    contextAfterChildren(node.children, 1, detectContext(node, context))
contextAfterChildren(children, i, context) ==
    IF i > Len(children) THEN context
    ELSE contextAfterChildren(children, i + 1, contextAfter(children[i], context))

\* mutant: the children are given the context object itself, so that each
\* sees what the children before it set
RECURSIVE extractFromChildren_SharedContext(_, _, _)
extractFromChildren_SharedContext(children, i, context) ==
    IF i > Len(children) THEN { <<>> }
    ELSE { childFields \o rest :
             childFields \in extractFieldsFromNode(children[i], context),
             rest \in extractFromChildren_SharedContext(
                         children, i + 1, contextAfter(children[i], context)) }

extractFieldsFromNode(node, context) ==
    LET ctx == detectContext(node, context) IN
    IF node.hasChildren /\ Len(node.children) > 0
    THEN { batch \o childFields :
             batch \in emitBatch(node, ctx),
             childFields \in extractFromChildren(node.children, 1, ctx) }
    ELSE { <<>> }

\* the for loop over node.children from the i-th child on, each child being
\* given a copy of the context
extractFromChildren(children, i, context) ==
    IF i > Len(children) THEN { <<>> }
    ELSE { childFields \o rest :
             childFields \in extractFieldsFromNode(children[i], context),
             rest \in extractFromChildren(children, i + 1, context) }

-----------------------------------------------------------------------------
(* The tree walk as a state machine                                        *)

MaxNodes == 3

N_Container == <<"C","o","n","t","a","i","n","e","r">>
N_Edit_Plan == <<"E","d","i","t"," ","P","l","a","n">>
N_Section == <<"S","e","c","t","i","o","n",":"," ">>
N_Subsection == <<"S","u","b","s","e","c","t","i","o","n",":"," ">>
N_Special_Section == <<"S","p","e","c","i","a","l"," ","S","e","c","t","i","o","n",":"," ">>
N_Heading == <<"P","L","A","N"," ">>
N_Label == <<"F","e","e"," ">>
N_Input == <<"I","n","p","u","t",":">>
N_Premium == <<"P","r","e","m","i","u","m"," ">>

\* The kinds of node the trees are built from; a node of a kind that reads
\* a name or a text ends it with the letter of its id.
\*   container    a frame with a neutral name
\*   screen       a frame named "Edit Plan"
\*   section      a frame named "Section: A"
\*   subsection   a frame named "Subsection: A"
\*   special      a frame named "Special Section: A"
\*   field        a frame named "Field" at the left, its first child the text
\*                "Fee A"
\*   fieldRight   the same, further to the right
\*   unnamed      a frame named "Input:" between the two, its first child the
\*                text "*"
\*   form         a frame with a neutral name, its first child a field group
\*                with the text "Fee A"
\*   heading      a text leaf "PLAN A"
\*   keyword      a text leaf "Premium A", in the documents of a request only
FrameKinds == {"container", "screen", "section", "subsection", "special",
               "field", "fieldRight", "unnamed", "form"}
LeafKinds == FrameKinds \cup {"heading"}

LetterOf(id) == << Uppers[id] >>

NameOf(kind, id) ==
    CASE kind \in {"container", "form"} -> N_Container
      [] kind = "screen" -> N_Edit_Plan
      [] kind = "section" -> N_Section \o LetterOf(id)
      [] kind = "subsection" -> N_Subsection \o LetterOf(id)
      [] kind = "special" -> N_Special_Section \o LetterOf(id)
      [] kind \in {"field", "fieldRight"} -> S_Field
      [] kind = "unnamed" -> N_Input
      [] kind = "heading" -> N_Heading \o LetterOf(id)
      [] kind = "keyword" -> N_Premium \o LetterOf(id)

\* the text child of a field group
LabelOf(id) ==
    Node(MaxNodes + id, N_Label \o LetterOf(id), "TEXT", N_Label \o LetterOf(id),
         FALSE, <<>>, NoBox)

\* the asterisk of a field group that has no label
AsteriskOf(id) ==
    Node(MaxNodes + id, << "*" >>, "TEXT", << "*" >>, FALSE, <<>>, NoBox)

\* the field group of a form
GroupOf(id) ==
    Node(2 * MaxNodes + id, S_Field, "FRAME", Undefined, TRUE,
         << Node(3 * MaxNodes + id, N_Label \o LetterOf(id), "TEXT",
                 N_Label \o LetterOf(id), FALSE, <<>>, NoBox) >>,
         Box(0, 0))

\* the ids, in increasing order, of the nodes whose parent is id
RECURSIVE childIdsFrom(_, _, _)
childIdsFrom(parent, id, i) ==
    IF i > Len(parent) THEN <<>>
    ELSE (IF parent[i] = id THEN << i >> ELSE <<>>) \o childIdsFrom(parent, id, i + 1)

\* the node id of the tree given by the parent and the kind of every node
RECURSIVE TreeAt(_, _, _)
TreeAt(parent, kind, id) ==
    LET ids == childIdsFrom(parent, id, id + 1)
        below == [k \in 1..Len(ids) |-> TreeAt(parent, kind, ids[k])]
    IN  CASE kind[id] \in {"heading", "keyword"} ->
               Node(id, NameOf(kind[id], id), "TEXT", NameOf(kind[id], id),
                    FALSE, <<>>, NoBox)
          [] kind[id] = "field" ->
               Node(id, NameOf(kind[id], id), "FRAME", Undefined,
                    TRUE, << LabelOf(id) >> \o below, Box(0, 0))
          [] kind[id] = "fieldRight" ->
               Node(id, NameOf(kind[id], id), "FRAME", Undefined,
                    TRUE, << LabelOf(id) >> \o below, Box(10, 0))
          [] kind[id] = "unnamed" ->
               Node(id, NameOf(kind[id], id), "FRAME", Undefined,
                    TRUE, << AsteriskOf(id) >> \o below, Box(5, 0))
          [] kind[id] = "form" ->
               Node(id, NameOf(kind[id], id), "FRAME", Undefined,
                    TRUE, << GroupOf(id) >> \o below, NoBox)
          [] OTHER ->
               Node(id, NameOf(kind[id], id), "FRAME", Undefined,
                    TRUE, below, NoBox)

\* parent[i] < i is the parent of node i; node 1 is the root
ParentVectors(n) ==
    { p \in [1..n -> 0..(n - 1)] : p[1] = 0 /\ \A i \in 2..n : p[i] >= 1 /\ p[i] < i }

\* a text leaf has no children, and of the field groups only the kind
\* "field" is given children besides its text
KindVectors(parent) ==
    { kind \in [DOMAIN parent -> LeafKinds] :
        \A i \in DOMAIN parent :
           kind[i] \in {"heading", "fieldRight", "unnamed"}
              => \A j \in DOMAIN parent : parent[j] # i }

TreesOf(parent) == { TreeAt(parent, kind, 1) : kind \in KindVectors(parent) }

\* the trees of at most max nodes, field labels not counted
TreesUpTo(max) ==
    UNION { TreesOf(parent) : parent \in UNION { ParentVectors(n) : n \in 1..max } }

WalkInit ==
    /\ SynthIdle /\ ExcelIdle /\ SortIdle /\ Ui1Idle /\ Ui2Idle
    /\ rows = <<>>
    /\ nodeData \in TreesUpTo(MaxNodes)
    /\ fields = <<>>
    /\ emitters = <<>>
    /\ walkPc = "start"

\* const fields = extractFieldsFromNode(nodeData)
ExtractFieldsFromNode ==
    /\ walkPc = "start"
    /\ \E pushed \in extractFieldsFromNode(nodeData, EmptyContext) :
          /\ fields' = [i \in 1..Len(pushed) |-> pushed[i].field]
          /\ emitters' = [i \in 1..Len(pushed) |-> pushed[i].emitter]
    /\ walkPc' = "extracted"
    /\ UNCHANGED <<nodeData, synthVars, excelVars, sortVars, ui1Vars, ui2Vars>>

WalkNext == ExtractFieldsFromNode

SpecWalk == WalkInit /\ [][WalkNext]_vars

-----------------------------------------------------------------------------
(* Properties of the tree walk                                             *)

\* the nodes from node down to the node id, <<>> when id is not below node
RECURSIVE PathIn(_, _)
PathIn(node, id) ==
    IF node.id = id THEN << node >>
    ELSE LET below == [i \in DOMAIN node.children |-> PathIn(node.children[i], id)]
             hits == { i \in DOMAIN below : below[i] # <<>> }
         IN  IF hits = {} THEN <<>>
             ELSE << node >> \o below[CHOOSE i \in hits : TRUE]

RECURSIVE NodesOf(_)
NodesOf(node) ==
    { node } \cup UNION { NodesOf(node.children[i]) : i \in DOMAIN node.children }

\* the places on a path where a section is detected
SectionPlaces(path) == { i \in DOMAIN path : Truthy(detectSection(path[i])) }

\* C1: in the walk started with an empty context every emitted field has a
\* non-empty section: the node that emitted it, or one of that node's
\* ancestors, detected a section, so that field groups outside every detected
\* section yield no field.
C1_FieldsOnlyUnderSection ==
    walkPc = "extracted" =>
      \A k \in DOMAIN fields :
        /\ Truthy(fields[k].section)
        /\ SectionPlaces(PathIn(nodeData, emitters[k].node)) # {}
        /\ SectionPlaces(PathIn(nodeData, emitters[k].group)) # {}

\* a walk that emitted a field and passed a node which has field groups
\* below it but no section on its path
C1_Witness ==
    /\ walkPc = "extracted"
    /\ fields # <<>>
    /\ \E node \in NodesOf(nodeData) :
          /\ node.hasChildren
          /\ findFieldGroups(node.children) # <<>>
          /\ SectionPlaces(PathIn(nodeData, node.id)) = {}

\* C2: a new section clears the subsection for its subtree: a field's
\* subsection is empty unless a subsection was detected at or below the last
\* node on the path from the root to its emitter that detected a section; a
\* subsection detected above that node is never carried.
C2_NewSectionClearsSubsection ==
    walkPc = "extracted" =>
      \A k \in DOMAIN fields :
        LET path == PathIn(nodeData, emitters[k].node)
            places == SectionPlaces(path)
        IN  /\ places # {}
            /\ fields[k].subsection # S_empty =>
                  \E u \in SetMax(places)..Len(path) :
                     detectSubsection(path[u]) = fields[k].subsection

\* a field emitted with an empty subsection below a section that lies below
\* a node which had set a subsection
C2_Witness ==
    /\ walkPc = "extracted"
    /\ \E k \in DOMAIN fields :
          LET path == PathIn(nodeData, emitters[k].node)
              places == SectionPlaces(path)
          IN  /\ fields[k].subsection = S_empty
              /\ \E a \in 1..(SetMax(places) - 1) :
                    /\ Truthy(detectSubsection(path[a]))
                    /\ \E s \in places : s <= a

\* C17: a field group is emitted once: in the primary walk no field-group
\* node contributes more than one field, also when it lies several
\* container levels below the node where the section was detected.
C17_GroupEmittedOnce ==
    walkPc = "extracted" =>
      \A j, k \in DOMAIN emitters :
         emitters[j].group = emitters[k].group => j = k

\* the places in the output of the fields that the batch of a node emitted
BatchOf(id) == { k \in DOMAIN emitters : emitters[k].node = id }

\* C18: within the batch of fields emitted at one node the order values are
\* positive, pairwise distinct and exactly 1..N, N being the number of
\* fields of the batch, and they increase along the batch.
C18_BatchOrdersOneToN ==
    walkPc = "extracted" =>
      \A id \in { emitters[k].node : k \in DOMAIN emitters } :
         /\ { fields[k].order : k \in BatchOf(id) } = 1..Cardinality(BatchOf(id))
         /\ \A j, k \in BatchOf(id) : j < k => fields[j].order < fields[k].order

\* the context after the nodes of a path from its i-th on, each refining
\* the context of the one before
RECURSIVE ContextAlong(_, _, _)
ContextAlong(path, i, context) ==
    IF i > Len(path) THEN context
    ELSE ContextAlong(path, i + 1, detectContext(path[i], context))

\* C19: the context is passed by value: the section, subsection and screen
\* name of a field are those that the nodes on the path from the root to
\* the node that emitted it set, one after the other, from the empty
\* context; what a node outside that path set (a sibling of a node of the
\* path, or a descendant of one) is not in it.
C19_ContextByValue ==
    walkPc = "extracted" =>
      \A k \in DOMAIN fields :
         LET context == ContextAlong(PathIn(nodeData, emitters[k].node), 1, EmptyContext)
         IN  /\ fields[k].section = context.section
             /\ fields[k].subsection
                   = (IF Truthy(context.subsection) THEN context.subsection ELSE S_empty)
             /\ fields[k].screenName
                   = (IF Truthy(context.screenName) THEN context.screenName ELSE S_create)

\* a field emitted by a node whose earlier sibling had set a subsection or
\* a screen name that the field does not carry
C19_Witness ==
    /\ walkPc = "extracted"
    /\ \E k \in DOMAIN fields :
          LET path == PathIn(nodeData, emitters[k].node)
          IN  /\ Len(path) >= 2
              /\ \E i \in DOMAIN path[Len(path) - 1].children :
                    LET sibling == path[Len(path) - 1].children[i]
                    IN  /\ sibling.id < emitters[k].node
                        /\ \/ /\ Truthy(detectSubsection(sibling))
                              /\ fields[k].subsection = S_empty
                           \/ /\ firstWord(sibling.name, << R_create, R_view, R_edit, R_delete >>) # Null
                              /\ fields[k].screenName = S_create

\* the nodes without children on which a section, or a subsection, is detected
Childless(node) == ~node.hasChildren \/ Len(node.children) = 0
SectionLeaves == { n \in NodesOf(nodeData) : Childless(n) /\ Truthy(detectSection(n)) }
SubsectionLeaves ==
    { n \in NodesOf(nodeData) : Childless(n) /\ Truthy(detectSubsection(n)) }
\* the fields whose emitter has such a node among its children
BesideHeading(k) ==
    LET emitter == PathIn(nodeData, emitters[k].node)[Len(PathIn(nodeData, emitters[k].node))]
    IN  \E i \in DOMAIN emitter.children : emitter.children[i] \in SectionLeaves
\* a section established by the name of a container
NamedSection(node) ==
    /\ node.type # "TEXT"
    /\ ~Childless(node)
    /\ testAny(node.name, << R_section >>)
    /\ Truthy(detectSection(node))

\* C28: a section or subsection detected on a node without children (an
\* all-upper-case text heading in particular) is the section or subsection of
\* no emitted field, and a field whose group lies beside such a heading is
\* emitted only when its emitter or an ancestor of it is a container that
\* established the field's section by its name.
C28_ChildlessDetectionUnused ==
    walkPc = "extracted" =>
      \A k \in DOMAIN fields :
        /\ \A n \in SectionLeaves : fields[k].section # detectSection(n)
        /\ \A n \in SubsectionLeaves : fields[k].subsection # detectSubsection(n)
        /\ BesideHeading(k) =>
              LET path == PathIn(nodeData, emitters[k].node) IN
              \E u \in DOMAIN path :
                 /\ NamedSection(path[u])
                 /\ fields[k].section = detectSection(path[u])

\* a walk that emitted a field from a node one of whose children is a text
\* heading on which a section is detected
C28_Witness ==
    /\ walkPc = "extracted"
    /\ \E k \in DOMAIN fields :
          /\ BesideHeading(k)
          /\ \E n \in SectionLeaves : n.type = "TEXT"

-----------------------------------------------------------------------------
(* Field groups: findFieldGroups and extractFieldLabel as a state machine   *)

MaxGroupChildren == 2

N_Row == <<"R","o","w">>
N_Field_Rate == <<"F","i","e","l","d",":"," ","R","a","t","e">>
N_Select_plan == <<"S","e","l","e","c","t"," ","p","l","a","n">>
N_LabelFrame == <<"L","a","b","e","l">>
N_InputBox == <<"I","n","p","u","t">>
N_Widget == <<"W","i","d","g","e","t">>
N_Box == <<"B","o","x">>
N_Icon == <<"I","c","o","n">>

\* The children a candidate group is built from.
\*   text         a text leaf "Fee X", X the letter of its id
\*   placeholder  a text leaf "Select plan", named after its text
\*   asterisk     a text leaf "*"
\*   label        a childless frame named "Label"
\*   input        a rectangle named "Input"
\*   instance     an instance named "Widget"
\*   component    a component named "Widget"
\*   shape        a rectangle named "Box"
TextKinds == {"text", "placeholder"}
ChildKinds == TextKinds \cup {"asterisk", "label", "input", "instance", "component", "shape"}

ChildOf(kind, id) ==
    CASE kind = "text" ->
           Node(id, N_Label \o LetterOf(id), "TEXT", N_Label \o LetterOf(id),
                FALSE, <<>>, NoBox)
      [] kind = "placeholder" ->
           Node(id, N_Select_plan, "TEXT", N_Select_plan, FALSE, <<>>, NoBox)
      [] kind = "asterisk" -> Node(id, << "*" >>, "TEXT", << "*" >>, FALSE, <<>>, NoBox)
      [] kind = "label" -> Node(id, N_LabelFrame, "FRAME", Undefined, FALSE, <<>>, NoBox)
      [] kind = "input" -> Node(id, N_InputBox, "RECTANGLE", Undefined, FALSE, <<>>, NoBox)
      [] kind = "instance" -> Node(id, N_Widget, "INSTANCE", Undefined, FALSE, <<>>, NoBox)
      [] kind = "component" -> Node(id, N_Widget, "COMPONENT", Undefined, FALSE, <<>>, NoBox)
      [] kind = "shape" -> Node(id, N_Box, "RECTANGLE", Undefined, FALSE, <<>>, NoBox)

\* a frame named "Icon" whose children are text leaves
IconOf(kinds, id) ==
    Node(id, N_Icon, "FRAME", Undefined, TRUE,
         [k \in DOMAIN kinds |-> ChildOf(kinds[k], 10 * k + id)], NoBox)

\* the i-th child of a candidate group
ChildrenAt(i) ==
    { ChildOf(kind, 2 + i) : kind \in ChildKinds }
    \cup { IconOf(kinds, 2 + i) : kinds \in SeqsUpTo(TextKinds, 1) }

\* the candidate groups of at most max children
GroupCandidates(max) ==
    UNION { { Node(2, name, "FRAME", Undefined, TRUE, children, Box(0, 0)) :
                name \in {N_Row, N_Field_Rate},
                children \in { c \in [1..n -> UNION { ChildrenAt(i) : i \in 1..n }] :
                                 \A i \in 1..n : c[i] \in ChildrenAt(i) } } :
            n \in 0..max }

GroupsInit ==
    /\ SynthIdle /\ ExcelIdle /\ SortIdle /\ Ui1Idle /\ Ui2Idle
    /\ rows = <<>>
    /\ nodeData \in { Node(1, N_Container, "FRAME", Undefined, TRUE, << group >>, NoBox) :
                        group \in GroupCandidates(MaxGroupChildren) }
    /\ fields = <<>>
    /\ emitters = <<>>
    /\ walkPc = "start"

\* const fieldGroups = findFieldGroups(node.children)
FindFieldGroups ==
    /\ walkPc = "start"
    /\ fieldGroups' = findFieldGroups(nodeData.children)
    /\ walkPc' = "found"
    /\ UNCHANGED <<nodeData, fields, emitters, sortedFields, sortPc,
                   synthVars, excelVars, ui1Vars, ui2Vars>>

\* const fieldName = extractFieldLabel(fieldGroup), for each group found
ExtractFieldLabel ==
    /\ walkPc = "found"
    /\ fields' = [i \in DOMAIN fieldGroups |-> extractFieldLabel(fieldGroups[i])]
    /\ walkPc' = "labelled"
    /\ UNCHANGED <<nodeData, emitters, sortVars, synthVars, excelVars, ui1Vars, ui2Vars>>

GroupsNext == FindFieldGroups \/ ExtractFieldLabel

SpecGroups == GroupsInit /\ [][GroupsNext]_vars

\* the group under test
Candidate == nodeData.children[1]

\* a child that is a text leaf or is named as a label
LabelLike(child) == child.type = "TEXT" \/ testAny(child.name, << R_label >>)
\* a child named as an input, or a reusable component
InputLike(child) ==
    \/ testAny(child.name, << R_input, R_dropdown, R_select, R_textbox, R_field >>)
    \/ child.type \in {"INSTANCE", "COMPONENT"}

\* C21: a node is a field container exactly when it has at least one child
\* and either its own name matches field, input, dropdown, select or
\* form-control, or it has a child that is a text leaf or named label and
\* another, different child whose name matches input, dropdown, select,
\* textbox or field or that is a reusable component; every other node is not.
C21_ContainerNeedsTwoChildren ==
    walkPc # "start" =>
        ((\E k \in DOMAIN fieldGroups : fieldGroups[k].id = Candidate.id)
         <=> /\ Len(Candidate.children) >= 1
             /\ \/ testAny(Candidate.name,
                           << R_field, R_input, R_dropdown, R_select, R_form_control >>)
                \/ \E i, j \in DOMAIN Candidate.children :
                      /\ i # j
                      /\ LabelLike(Candidate.children[i])
                      /\ InputLike(Candidate.children[j]))

\* the qualifying texts of the text leaves below a node, in depth-first order
RECURSIVE QualifyingTexts(_)
RECURSIVE QualifyingTextsFrom(_, _)
QualifyingTexts(node) == QualifyingTextsFrom(node.children, 1)
QualifyingTextsFrom(children, i) ==
    IF i > Len(children) THEN <<>>
    ELSE LET child == children[i]
             text == trim(child.characters)
             own == IF /\ child.type = "TEXT" /\ child.characters # Undefined
                       /\ text # S_empty
                       /\ ~testPrefix(text, << R_select, R_enter, R_choose >>)
                       /\ text # << "*" >>
                    THEN << text >> ELSE <<>>
         IN  own \o QualifyingTexts(child) \o QualifyingTextsFrom(children, i + 1)

\* C22: the label of a field group is the trimmed content of the first
\* qualifying text leaf of its subtree in depth-first order whenever there is
\* one; a node name is returned only when the subtree has no qualifying text.
C22_FirstQualifyingText ==
    walkPc = "labelled" =>
        \A k \in DOMAIN fieldGroups :
            QualifyingTexts(fieldGroups[k]) # <<>>
               => fields[k] = Head(QualifyingTexts(fieldGroups[k]))


-----------------------------------------------------------------------------
(***************************************************************************)
(* Uploaded files (fileParser.ts).  A file is its name and its content     *)
(* as the lines below the header, each line the texts of its cells; the    *)
(* four parsers of a kind read the first two cells of every line.          *)
(***************************************************************************)
S_dot == <<".">>
S_xlsx == <<"x","l","s","x">>
S_xls == <<"x","l","s">>
S_csv == <<"c","s","v">>
S_pdf == <<"p","d","f">>
S_doc == <<"d","o","c">>
S_docx == <<"d","o","c","x">>
S_Unsupported_DB_mapping == <<"U","n","s","u","p","p","o","r","t","e","d"," ","f","i","l","e"," ","f","o","r","m","a","t"," ","f","o","r"," ","D","B"," ","m","a","p","p","i","n","g">>
S_Unsupported_computed == <<"U","n","s","u","p","p","o","r","t","e","d"," ","f","i","l","e"," ","f","o","r","m","a","t"," ","f","o","r"," ","c","o","m","p","u","t","e","d"," ","f","i","e","l","d","s">>

File(name, records) == [present |-> TRUE, name |-> name, records |-> records]
\* the state of a file input nothing was uploaded to
NoFile == [present |-> FALSE, name |-> S_empty, records |-> <<>>]

\* what a call gave: the value it returned, or the message of the Error it
\* threw
Returned(value) == [threw |-> FALSE, message |-> S_empty, value |-> value]
Threw(message) == [threw |-> TRUE, message |-> message, value |-> <<>>]

\* row.getCell(i).value?.toString().trim(), parts[i].trim()
cellText(row, i) == IF i <= Len(row) THEN trim(row[i]) ELSE Undefined

\* file.name.split('.').pop()?.toLowerCase()
extensionOf(name) ==
    LET dots == { i \in DOMAIN name : name[i] = "." }
    IN  toLowerCase(IF dots = {} THEN name
                    ELSE SubSeq(name, SetMax(dots) + 1, Len(name)))

\* the lines whose first two cells are both non-empty once trimmed, as
\* mapping entries
parseExcelDBMapping(file) ==
    LET kept(row) == Truthy(cellText(row, 1)) /\ Truthy(cellText(row, 2))
        lines == SelectSeq(file.records, kept)
    IN  [i \in DOMAIN lines |->
            [fieldName |-> cellText(lines[i], 1), dbColumn |-> cellText(lines[i], 2)]]

parseCSVDBMapping(file) ==
    LET present(row) == Len(row) >= 2 /\ row[1] # S_empty /\ row[2] # S_empty
        kept(row) == Truthy(cellText(row, 1)) /\ Truthy(cellText(row, 2))
        lines == SelectSeq(SelectSeq(file.records, present), kept)
    IN  [i \in DOMAIN lines |->
            [fieldName |-> cellText(lines[i], 1), dbColumn |-> cellText(lines[i], 2)]]

parsePDFDBMapping(file) ==
    LET kept(parts) == /\ Len(parts) >= 2
                       /\ Truthy(cellText(parts, 1)) /\ Truthy(cellText(parts, 2))
        lines == SelectSeq(file.records, kept)
    IN  [i \in DOMAIN lines |->
            [fieldName |-> cellText(lines[i], 1), dbColumn |-> cellText(lines[i], 2)]]

\* mutant: a file of an unknown extension is read as a spreadsheet
parseDBMappingFile_AnyExtension(file) ==
    LET ext == extensionOf(file.name)
    IN  IF ext = S_csv THEN Returned(parseCSVDBMapping(file))
        ELSE IF ext \in {S_pdf, S_doc, S_docx} THEN Returned(parsePDFDBMapping(file))
        ELSE Returned(parseExcelDBMapping(file))


parseDBMappingFile(file) ==
    LET ext == extensionOf(file.name)
    IN  IF ext \in {S_xlsx, S_xls} THEN Returned(parseExcelDBMapping(file))
        ELSE IF ext = S_csv THEN Returned(parseCSVDBMapping(file))
        ELSE IF ext \in {S_pdf, S_doc, S_docx} THEN Returned(parsePDFDBMapping(file))
        ELSE Threw(S_Unsupported_DB_mapping)

\* the computed-field parsers read the same two cells as name and formula
parseExcelComputedFields(file) ==
    LET kept(row) == Truthy(cellText(row, 1)) /\ Truthy(cellText(row, 2))
        lines == SelectSeq(file.records, kept)
    IN  [i \in DOMAIN lines |->
            [fieldName |-> cellText(lines[i], 1), formula |-> cellText(lines[i], 2),
             isComputed |-> TRUE]]

parseCSVComputedFields(file) ==
    LET present(row) == Len(row) >= 2 /\ row[1] # S_empty /\ row[2] # S_empty
        kept(row) == Truthy(cellText(row, 1)) /\ Truthy(cellText(row, 2))
        lines == SelectSeq(SelectSeq(file.records, present), kept)
    IN  [i \in DOMAIN lines |->
            [fieldName |-> cellText(lines[i], 1), formula |-> cellText(lines[i], 2),
             isComputed |-> TRUE]]

\* mutant: a line is kept for its name alone, whatever its formula
parsePDFComputedFields_KeepBlank(file) ==
    LET kept(parts) == Len(parts) >= 2 /\ Truthy(cellText(parts, 1))
        lines == SelectSeq(file.records, kept)
    IN  [i \in DOMAIN lines |->
            [fieldName |-> cellText(lines[i], 1), formula |-> cellText(lines[i], 2),
             isComputed |-> TRUE]]


parsePDFComputedFields(file) ==
    LET kept(parts) == /\ Len(parts) >= 2
                       /\ Truthy(cellText(parts, 1)) /\ Truthy(cellText(parts, 2))
        lines == SelectSeq(file.records, kept)
    IN  [i \in DOMAIN lines |->
            [fieldName |-> cellText(lines[i], 1), formula |-> cellText(lines[i], 2),
             isComputed |-> TRUE]]

parseComputedFields(file) ==
    LET ext == extensionOf(file.name)
    IN  IF ext \in {S_xlsx, S_xls} THEN Returned(parseExcelComputedFields(file))
        ELSE IF ext = S_csv THEN Returned(parseCSVComputedFields(file))
        ELSE IF ext \in {S_pdf, S_doc, S_docx} THEN Returned(parsePDFComputedFields(file))
        ELSE Threw(S_Unsupported_computed)

(***************************************************************************)
(* Consolidation (UI1ExtractConsolidate, handleProcess).                   *)
(***************************************************************************)
S_Missing_DB_mapping == <<"M","i","s","s","i","n","g"," ","D","B"," ","m","a","p","p","i","n","g">>
S_Missing_formula == <<"C","o","m","p","u","t","e","d"," ","f","i","e","l","d"," ","i","s"," ","m","i","s","s","i","n","g"," ","f","o","r","m","u","l","a">>
S_error == <<"e","r","r","o","r">>

\* mutant: a Map that keeps the first entry of a key
newMap_FirstWins(entries) ==
    [k \in { entries[i].key : i \in DOMAIN entries } |->
        entries[SetMin({ i \in DOMAIN entries : entries[i].key = k })].value]

\* new Map(entries): a later entry replaces an earlier one of the same key
newMap(entries) ==
    [k \in { entries[i].key : i \in DOMAIN entries } |->
        entries[SetMax({ i \in DOMAIN entries : entries[i].key = k })].value]

\* new Map(dbMappings.map(m => [m.fieldName.toLowerCase(), m.dbColumn]))
dbMappingMapOf(dbMappings) ==
    newMap([i \in DOMAIN dbMappings |->
              [key |-> toLowerCase(dbMappings[i].fieldName),
               value |-> dbMappings[i].dbColumn]])

\* new Map(computedFields.map(f => [f.fieldName.toLowerCase(), f]))
computedFieldsMapOf(computedFields) ==
    newMap([i \in DOMAIN computedFields |->
              [key |-> toLowerCase(computedFields[i].fieldName),
               value |-> computedFields[i]]])

\* mutant: the computed-field entry is looked up by the name as written
consolidate_ExactName(field, dbMappingMap, computedFieldsMap, planType) ==
    LET fieldNameLower == toLowerCase(field.fieldName)
        dbMapping == IF fieldNameLower \in DOMAIN dbMappingMap
                        /\ Truthy(dbMappingMap[fieldNameLower])
                     THEN dbMappingMap[fieldNameLower] ELSE S_empty
        computed == field.fieldName \in DOMAIN computedFieldsMap
    IN  [section     |-> field.section,
         subsection  |-> field.subsection,
         field_name  |-> field.fieldName,
         order       |-> field.order,
         screen_name |-> field.screenName,
         DB_mapping  |-> dbMapping,
         is_computed |-> IF computed THEN S_YES ELSE S_NO,
         formula     |-> IF computed /\ Truthy(computedFieldsMap[field.fieldName].formula)
                         THEN computedFieldsMap[field.fieldName].formula ELSE S_empty,
         plan_type   |-> planType]


\* the row of one extracted field
consolidate(field, dbMappingMap, computedFieldsMap, planType) ==
    LET fieldNameLower == toLowerCase(field.fieldName)
        dbMapping == IF fieldNameLower \in DOMAIN dbMappingMap
                        /\ Truthy(dbMappingMap[fieldNameLower])
                     THEN dbMappingMap[fieldNameLower] ELSE S_empty
        computed == fieldNameLower \in DOMAIN computedFieldsMap
    IN  [section     |-> field.section,
         subsection  |-> field.subsection,
         field_name  |-> field.fieldName,
         order       |-> field.order,
         screen_name |-> field.screenName,
         DB_mapping  |-> dbMapping,
         is_computed |-> IF computed THEN S_YES ELSE S_NO,
         formula     |-> IF computed /\ Truthy(computedFieldsMap[fieldNameLower].formula)
                         THEN computedFieldsMap[fieldNameLower].formula ELSE S_empty,
         plan_type   |-> planType]

\* mutant: the diagnostics number the rows from 0
validateRow_ZeroBased(row, index) ==
    (IF ~Truthy(row.DB_mapping)
     THEN << [row |-> index, field |-> row.field_name,
              message |-> S_Missing_DB_mapping, type |-> S_error] >>
     ELSE <<>>)
    \o
    (IF row.is_computed = S_YES /\ ~Truthy(row.formula)
     THEN << [row |-> index, field |-> row.field_name,
              message |-> S_Missing_formula, type |-> S_error] >>
     ELSE <<>>)


\* the diagnostics of one row
validateRow(row, index) ==
    (IF ~Truthy(row.DB_mapping)
     THEN << [row |-> index + 1, field |-> row.field_name,
              message |-> S_Missing_DB_mapping, type |-> S_error] >>
     ELSE <<>>)
    \o
    (IF row.is_computed = S_YES /\ ~Truthy(row.formula)
     THEN << [row |-> index + 1, field |-> row.field_name,
              message |-> S_Missing_formula, type |-> S_error] >>
     ELSE <<>>)

RECURSIVE validateRows(_, _)
validateRows(consolidated, index) ==
    IF index >= Len(consolidated) THEN <<>>
    ELSE validateRow(consolidated[index + 1], index)
         \o validateRows(consolidated, index + 1)

(***************************************************************************)
(* parseFigmaUrl (figmaApi.ts).  new URL(url) is modelled for the https    *)
(* URLs and the scheme-less strings the model enters: the former split     *)
(* into pathname and search, the latter make the constructor throw.        *)
(***************************************************************************)
S_https == <<"h","t","t","p","s",":","/","/">>
S_slash_file == <<"/","f","i","l","e","/">>
S_slash_design == <<"/","d","e","s","i","g","n","/">>
S_node_id == <<"n","o","d","e","-","i","d">>

startsWithAt(s, i, prefix) ==
    i + Len(prefix) - 1 <= Len(s) /\ SubSeq(s, i, i + Len(prefix) - 1) = prefix

\* the first position from i on that holds one of the characters, or
\* Len(s) + 1
firstOf(s, i, chars) ==
    SetMin({ k \in i..Len(s) : s[k] \in chars } \cup { Len(s) + 1 })

\* s.split(c)
RECURSIVE splitOn(_, _)
splitOn(s, c) ==
    LET k == firstOf(s, 1, {c})
    IN  IF k > Len(s) THEN << s >>
        ELSE << SubSeq(s, 1, k - 1) >> \o splitOn(SubSeq(s, k + 1, Len(s)), c)

\* new URL(url)
URL(url) ==
    IF ~startsWithAt(url, 1, S_https) \/ Len(url) = Len(S_https)
    THEN [valid |-> FALSE, pathname |-> S_empty, search |-> S_empty]
    ELSE LET hostEnd == firstOf(url, Len(S_https) + 1, {"/", "?", "#"})
             pathEnd == firstOf(url, hostEnd, {"?", "#"})
             searchEnd == firstOf(url, pathEnd, {"#"})
         IN  [valid |-> TRUE,
              pathname |-> IF pathEnd = hostEnd THEN << "/" >>
                           ELSE SubSeq(url, hostEnd, pathEnd - 1),
              search |-> SubSeq(url, pathEnd, searchEnd - 1)]

\* urlObj.pathname.match(/\/(file|design)\/([^\/]+)/): capture group 2 of
\* the leftmost match, or Null
pathMatch(pathname) ==
    LET keyAt(i) == IF startsWithAt(pathname, i, S_slash_file)
                    THEN i + Len(S_slash_file)
                    ELSE IF startsWithAt(pathname, i, S_slash_design)
                         THEN i + Len(S_slash_design)
                         ELSE 0
        hits == { i \in DOMAIN pathname :
                    keyAt(i) > 0 /\ firstOf(pathname, keyAt(i), {"/"}) > keyAt(i) }
    IN  IF hits = {} THEN Null
        ELSE LET i == SetMin(hits)
             IN  SubSeq(pathname, keyAt(i), firstOf(pathname, keyAt(i), {"/"}) - 1)

\* urlObj.searchParams.get(name): the value of the first parameter of that
\* name, or Null; the model enters no escaped character
searchParamsGet(search, name) ==
    LET params == IF Len(search) <= 1 THEN <<>>
                  ELSE splitOn(SubSeq(search, 2, Len(search)), "&")
        nameOf(p) == SubSeq(p, 1, firstOf(p, 1, {"="}) - 1)
        valueOf(p) == SubSeq(p, firstOf(p, 1, {"="}) + 1, Len(p))
        hits == { k \in DOMAIN params : params[k] # S_empty /\ nameOf(params[k]) = name }
    IN  IF hits = {} THEN Null ELSE valueOf(params[SetMin(hits)])

\* nodeId.replace(/-/g, ':')
hyphensToColons(s) == [i \in DOMAIN s |-> IF s[i] = "-" THEN ":" ELSE s[i]]

\* found is FALSE where the code returns null
parseFigmaUrl(url) ==
    LET urlObj == URL(url)
        key == pathMatch(urlObj.pathname)
        nodeId == searchParamsGet(urlObj.search, S_node_id)
    IN  IF urlObj.valid /\ key # Null /\ Truthy(nodeId)
        THEN [found |-> TRUE, fileKey |-> key, nodeId |-> hyphensToColons(nodeId)]
        ELSE [found |-> FALSE, fileKey |-> S_empty, nodeId |-> S_empty]

(***************************************************************************)
(* The fallback pass.  figmaApi.ts calls aggressiveFieldExtraction without *)
(* defining it; it is modelled from section 4.3 of the specification: a    *)
(* text leaf is a field when its name or its text starts with "field:" or  *)
(* "input:", ends with "label" or contains a domain keyword; section and   *)
(* subsection are ignored and the order is the traversal order.            *)
(***************************************************************************)
K_field_colon == <<"f","i","e","l","d",":">>
K_input_colon == <<"i","n","p","u","t",":">>
K_label == <<"l","a","b","e","l">>
K_name == <<"n","a","m","e">>
K_coverage == <<"c","o","v","e","r","a","g","e">>

endsWith(s, suffix) ==
    Len(suffix) <= Len(s) /\ SubSeq(s, Len(s) - Len(suffix) + 1, Len(s)) = suffix

isCandidateText(text) ==
    LET t == toLowerCase(trim(text)) IN
    \/ startsWithAt(t, 1, K_field_colon)
    \/ startsWithAt(t, 1, K_input_colon)
    \/ endsWith(t, K_label)
    \/ \E k \in {K_name, S_number, S_date, S_amount, S_deductible, S_premium, K_coverage} :
          includes(t, k)

\* the text leaves of the tree that are candidates, in traversal order
RECURSIVE candidateLeaves(_)
RECURSIVE candidateLeavesOf(_, _)
candidateLeaves(node) ==
    IF node.type = "TEXT" /\ ~(node.hasChildren /\ Len(node.children) > 0)
    THEN IF isCandidateText(node.name)
            \/ (Truthy(node.characters) /\ isCandidateText(node.characters))
         THEN << node >> ELSE <<>>
    ELSE candidateLeavesOf(node.children, 1)
candidateLeavesOf(children, i) ==
    IF i > Len(children) THEN <<>>
    ELSE candidateLeaves(children[i]) \o candidateLeavesOf(children, i + 1)

aggressiveFieldExtraction(document) ==
    LET leaves == candidateLeaves(document)
    IN  [i \in DOMAIN leaves |->
            [section |-> S_empty,
             subsection |-> S_empty,
             fieldName |-> IF Truthy(leaves[i].characters)
                           THEN trim(leaves[i].characters) ELSE trim(leaves[i].name),
             order |-> i,
             screenName |-> S_create]]

(***************************************************************************)
(* fetchFigmaData (figmaApi.ts).  response is what the GET returned: the   *)
(* documents of the nodes the file has, by node id.                        *)
(***************************************************************************)
S_Node_not_found == <<"N","o","d","e"," ","n","o","t"," ","f","o","u","n","d"," ","i","n"," ","F","i","g","m","a"," ","f","i","l","e">>
S_Failed_to_fetch == <<"F","a","i","l","e","d"," ","t","o"," ","f","e","t","c","h"," ","F","i","g","m","a"," ","d","a","t","a",":"," ">>

\* what a call of fetchFigmaData gave, with the result of the primary walk
\* and the number of calls of the fallback pass
Fetched(result, primary, fallbackCalls) ==
    [threw |-> result.threw, message |-> result.message, value |-> result.value,
     primary |-> primary, fallbackCalls |-> fallbackCalls]

\* mutant: the fallback pass runs after every primary walk and its fields
\* are preferred
fetchFigmaData_AlwaysFallback(fileKey, nodeId, accessToken, response) ==
    IF nodeId \notin DOMAIN response
    THEN { Fetched(Threw(S_Failed_to_fetch \o S_Node_not_found), <<>>, 0) }
    ELSE LET document == response[nodeId] IN
         { LET walked == [i \in DOMAIN pushed |-> pushed[i].field]
               aggressiveFields == aggressiveFieldExtraction(document)
           IN  IF Len(aggressiveFields) > 0
               THEN Fetched(Returned(aggressiveFields), walked, 1)
               ELSE Fetched(Returned(walked), walked, 1)
           : pushed \in extractFieldsFromNode(document, EmptyContext) }


\* one outcome for each order the sorts of the primary walk can leave
fetchFigmaData(fileKey, nodeId, accessToken, response) ==
    IF nodeId \notin DOMAIN response
    THEN { Fetched(Threw(S_Failed_to_fetch \o S_Node_not_found), <<>>, 0) }
    ELSE LET document == response[nodeId] IN
         { LET walked == [i \in DOMAIN pushed |-> pushed[i].field] IN
           IF Len(walked) > 0 THEN Fetched(Returned(walked), walked, 0)
           ELSE LET aggressiveFields == aggressiveFieldExtraction(document) IN
                IF Len(aggressiveFields) > 0
                THEN Fetched(Returned(aggressiveFields), walked, 1)
                ELSE Fetched(Returned(walked), walked, 1)
           : pushed \in extractFieldsFromNode(document, EmptyContext) }

(***************************************************************************)
(* UI1ExtractConsolidate: handleProcess                                    *)
(***************************************************************************)
S_Please_provide == <<"P","l","e","a","s","e"," ","p","r","o","v","i","d","e"," ","F","i","g","m","a"," ","U","R","L"," ","a","n","d"," ","A","P","I"," ","t","o","k","e","n">>
S_Please_upload == <<"P","l","e","a","s","e"," ","u","p","l","o","a","d"," ","D","B"," ","m","a","p","p","i","n","g"," ","f","i","l","e">>
S_Invalid_Figma_URL == <<"I","n","v","a","l","i","d"," ","F","i","g","m","a"," ","U","R","L","."," ","P","l","e","a","s","e"," ","u","s","e"," ","f","o","r","m","a","t",":"," ","h","t","t","p","s",":","/","/","w","w","w",".","f","i","g","m","a",".","c","o","m","/","f","i","l","e","/","{","f","i","l","e","K","e","y","}","?","n","o","d","e","-","i","d","=","{","n","o","d","e","I","d","}">>
S_No_fields_found == <<"N","o"," ","f","i","e","l","d","s"," ","f","o","u","n","d"," ","i","n"," ","F","i","g","m","a"," ","n","o","d","e","."," ","P","l","e","a","s","e"," ","c","h","e","c","k"," ","t","h","e"," ","n","o","d","e"," ","I","D",".">>
S_Error_prefix == <<"E","r","r","o","r",":"," ">>

\* the component before a run: nothing consolidated, no alert shown, no
\* request sent
Mounted ==
    [pc |-> "start", isProcessing |-> FALSE, runs |-> 0,
     consolidatedRows |-> <<>>, validationErrors |-> <<>>,
     alert |-> S_empty, requests |-> 0, figmaFields |-> <<>>,
     primaryFields |-> <<>>, fallbackCalls |-> 0]

\* alert(message); return
alerted(state, message) == [state EXCEPT !.alert = message, !.pc = "done"]

\* the run from the parsing of the mapping file on
consolidateAll(state, inputs, figmaFields) ==
    LET dbMappings == parseDBMappingFile(inputs.dbMappingFile)
        computedFields == IF inputs.computedFieldsFile.present
                          THEN parseComputedFields(inputs.computedFieldsFile)
                          ELSE Returned(<<>>)
    IN  IF dbMappings.threw THEN alerted(state, S_Error_prefix \o dbMappings.message)
        ELSE IF computedFields.threw
             THEN alerted(state, S_Error_prefix \o computedFields.message)
             ELSE LET dbMappingMap == dbMappingMapOf(dbMappings.value)
                      computedFieldsMap == computedFieldsMapOf(computedFields.value)
                      consolidated ==
                          [i \in DOMAIN figmaFields |->
                              consolidate(figmaFields[i], dbMappingMap,
                                          computedFieldsMap, inputs.planType)]
                  IN  [state EXCEPT !.consolidatedRows = consolidated,
                                    !.validationErrors = validateRows(consolidated, 0),
                                    !.pc = "done"]

\* setIsProcessing(true); setValidationErrors([]): a run starts, and with it
\* the record of its alert and of its calls
begun(state) ==
    [state EXCEPT !.isProcessing = TRUE, !.runs = @ + 1, !.validationErrors = <<>>,
                  !.alert = S_empty, !.requests = 0, !.figmaFields = <<>>,
                  !.primaryFields = <<>>, !.fallbackCalls = 0]

\* the input checks that end a run before its first await
stopsBeforeFetch(inputs) ==
    \/ ~Truthy(inputs.figmaUrl) \/ ~Truthy(inputs.figmaToken)
    \/ ~inputs.dbMappingFile.present
    \/ ~parseFigmaUrl(inputs.figmaUrl).found

\* the try block after its first two statements: the states it can end in,
\* one for each outcome of fetchFigmaData
tryBlock(state, inputs) ==
    LET figmaParams == parseFigmaUrl(inputs.figmaUrl)
    IN  IF ~Truthy(inputs.figmaUrl) \/ ~Truthy(inputs.figmaToken)
        THEN { alerted(state, S_Please_provide) }
        ELSE IF ~inputs.dbMappingFile.present
        THEN { alerted(state, S_Please_upload) }
        ELSE IF ~figmaParams.found
        THEN { alerted(state, S_Invalid_Figma_URL) }
        ELSE { LET fetching == [state EXCEPT !.requests = @ + 1,
                                             !.primaryFields = fetched.primary,
                                             !.fallbackCalls = @ + fetched.fallbackCalls]
               IN  IF fetched.threw
                   THEN alerted(fetching, S_Error_prefix \o fetched.message)
                   ELSE IF Len(fetched.value) = 0
                   THEN alerted(fetching, S_No_fields_found)
                   ELSE consolidateAll([fetching EXCEPT !.figmaFields = fetched.value],
                                       inputs, fetched.value)
               : fetched \in fetchFigmaData(figmaParams.fileKey, figmaParams.nodeId,
                                            inputs.figmaToken, inputs.response) }

\* mutant: setIsProcessing(false) as the last statement of the try block
finallyBlock_AfterSuccess(state) ==
    IF state.alert = S_empty THEN [state EXCEPT !.isProcessing = FALSE] ELSE state

\* finally { setIsProcessing(false) }
finallyBlock(state) == [state EXCEPT !.isProcessing = FALSE]

\* a run from its first await to its end
settled(state, inputs) == { finallyBlock(s) : s \in tryBlock(state, inputs) }

\* the states a run can end in
handleProcess(state, inputs) == settled(begun(state), inputs)

-----------------------------------------------------------------------------
(* The run of UI1ExtractConsolidate as a state machine                     *)

MaxMappingLines == 2
MaxFormulaLines == 2
MaxChildren == 2

S_token == <<"f","i","g","d","_","t">>
S_node_1_2 == <<"1",":","2">>
U_file == <<"h","t","t","p","s",":","/","/","w","w","w",".","f","i","g","m","a",".","c","o","m","/","f","i","l","e","/","a","b","c","?","n","o","d","e","-","i","d","=","1","-","2">>
U_design == <<"h","t","t","p","s",":","/","/","w","w","w",".","f","i","g","m","a",".","c","o","m","/","d","e","s","i","g","n","/","a","b","c","/","P","l","a","n","?","t","=","x","&","n","o","d","e","-","i","d","=","1","-","2">>
U_other_node == <<"h","t","t","p","s",":","/","/","w","w","w",".","f","i","g","m","a",".","c","o","m","/","f","i","l","e","/","a","b","c","?","n","o","d","e","-","i","d","=","9","-","9">>
U_proto == <<"h","t","t","p","s",":","/","/","w","w","w",".","f","i","g","m","a",".","c","o","m","/","p","r","o","t","o","/","a","b","c","?","n","o","d","e","-","i","d","=","1","-","2">>
U_no_node == <<"h","t","t","p","s",":","/","/","w","w","w",".","f","i","g","m","a",".","c","o","m","/","f","i","l","e","/","a","b","c">>
U_no_scheme == <<"w","w","w",".","f","i","g","m","a",".","c","o","m","/","f","i","l","e","/","a","b","c","?","n","o","d","e","-","i","d","=","1","-","2">>
F_mapping_xlsx == <<"m","a","p","p","i","n","g",".","x","l","s","x">>
F_mapping_CSV == <<"m","a","p","p","i","n","g",".","v","2",".","C","S","V">>
F_mapping_txt == <<"m","a","p","p","i","n","g",".","t","x","t">>
F_formulas_pdf == <<"f","o","r","m","u","l","a","s",".","p","d","f">>
F_formulas_json == <<"f","o","r","m","u","l","a","s",".","j","s","o","n">>
F_formulas == <<"f","o","r","m","u","l","a","s">>

\* the lines of a mapping file: the labels of the document in several
\* cases, a line with a blank name and a line of one cell
MappingLines ==
    { << <<"F","e","e"," ","B">>, <<"e","m","p",".","f","e","e","_","b">> >>,
      << <<" ","f","e","e"," ","b"," ">>, <<"E","m","p",".","F","e","e">> >>,
      << <<"F","E","E"," ","C">>, <<"e","m","p",".","f","e","e","_","c">> >>,
      << <<" "," ">>, <<"e","m","p",".","n","o","n","e">> >>,
      << <<"F","e","e"," ","C">> >> }

\* the lines of a formula file, one of them with a blank formula
FormulaLines ==
    { << <<"f","e","e"," ","b">>, <<"a"," ","+"," ","b">> >>,
      << <<"F","E","E"," ","B">>, <<"a"," ","*"," ","b">> >>,
      << <<"F","e","e"," ","C">>, <<" ">> >> }

\* a document of a root and its children, of the kinds given
Document(rootKind, childKinds) ==
    TreeAt([i \in 1..(Len(childKinds) + 1) |-> IF i = 1 THEN 0 ELSE 1],
           << rootKind >> \o childKinds, 1)

ConsolidationInputs ==
    [figmaUrl : {U_file},
     figmaToken : {S_token},
     response : { [id \in {S_node_1_2} |-> Document("section", kinds)] :
                    kinds \in { <<"field", "fieldRight">>, <<"fieldRight", "field">>,
                                <<"container", "field">> } },
     dbMappingFile : { File(F_mapping_xlsx, lines) :
                         lines \in SeqsUpTo(MappingLines, MaxMappingLines) },
     computedFieldsFile : {NoFile} \cup
                          { File(F_formulas_pdf, lines) :
                              lines \in SeqsUpTo(FormulaLines, MaxFormulaLines) },
     planType : {S_MEDICAL, S_DENTAL}]

FetchInputs ==
    [figmaUrl : {S_empty, U_file, U_design, U_other_node, U_proto, U_no_node, U_no_scheme},
     figmaToken : {S_empty, S_token},
     response : { [id \in {S_node_1_2} |-> Document(rootKind, kinds)] :
                    rootKind \in {"section", "container"},
                    kinds \in SeqsUpTo({"field", "keyword", "unnamed"}, MaxChildren) },
     dbMappingFile : {NoFile} \cup
                     { File(name, << << <<"F","e","e"," ","B">>, <<"e","m","p",".","f","e","e","_","b">> >> >>) :
                         name \in {F_mapping_xlsx, F_mapping_CSV, F_mapping_txt} },
     computedFieldsFile : {NoFile} \cup
                          { File(name, << << <<"f","e","e"," ","b">>, <<"a"," ","+"," ","b">> >> >>) :
                              name \in {F_formulas_pdf, F_formulas_json, F_formulas} },
     planType : {S_MEDICAL}]

Ui1Init ==
    /\ SynthIdle /\ ExcelIdle /\ SortIdle /\ WalkIdle /\ Ui2Idle
    /\ rows = <<>>
    /\ ui1Inputs \in ConsolidationInputs \cup FetchInputs
    /\ ui1State = Mounted

\* a click on the process button: the whole of handleProcess
HandleProcess ==
    /\ ui1State.pc = "start"
    /\ ui1State' \in handleProcess(ui1State, ui1Inputs)
    /\ UNCHANGED <<ui1Inputs, synthVars, excelVars, sortVars, walkVars, ui2Vars>>

Ui1Next == HandleProcess

SpecUi1 == Ui1Init /\ [][Ui1Next]_vars

-----------------------------------------------------------------------------
(* Properties of the run of UI1ExtractConsolidate                          *)

\* the number of diagnostics of a list that name a row and carry a message
DiagnosticsOf(errors, position, message) ==
    Cardinality({ k \in DOMAIN errors :
                    errors[k].row = position /\ errors[k].message = message })

\* the diagnostics of a list are exactly those the rows call for
DiagnosticsExact(errors, consolidated) ==
    /\ \A k \in DOMAIN errors :
          /\ errors[k].type = S_error
          /\ errors[k].row \in DOMAIN consolidated
          /\ errors[k].field = consolidated[errors[k].row].field_name
          /\ errors[k].message \in {S_Missing_DB_mapping, S_Missing_formula}
    /\ \A i \in DOMAIN consolidated :
          /\ DiagnosticsOf(errors, i, S_Missing_DB_mapping)
                = (IF consolidated[i].DB_mapping = S_empty THEN 1 ELSE 0)
          /\ DiagnosticsOf(errors, i, S_Missing_formula)
                = (IF consolidated[i].is_computed = S_YES
                      /\ consolidated[i].formula = S_empty THEN 1 ELSE 0)

\* the rows of a list, the formula of every computed one removed
Unformulated(consolidated) ==
    [i \in DOMAIN consolidated |->
        IF consolidated[i].is_computed = S_YES
        THEN [consolidated[i] EXCEPT !.formula = S_empty] ELSE consolidated[i]]

\* C12: the diagnostics of a run are exactly these: one "Missing DB mapping"
\* for every row whose DB_mapping is empty, one "Computed field is missing
\* formula" for every row marked computed whose formula is empty, and no
\* other; every diagnostic has the type error and names the row by its
\* 1-based position in the consolidated list.  The same holds of the
\* validation applied to the rows of the run with the formulas of the
\* computed rows removed.
C12_DiagnosticsExact ==
    ui1State.pc = "done" =>
      /\ DiagnosticsExact(ui1State.validationErrors, ui1State.consolidatedRows)
      /\ DiagnosticsExact(validateRows(Unformulated(ui1State.consolidatedRows), 0),
                          Unformulated(ui1State.consolidatedRows))

\* a run that consolidated a row without DB mapping after a row with one,
\* one of its rows computed
C12_Witness ==
    /\ ui1State.pc = "done"
    /\ Len(ui1State.consolidatedRows) = 2
    /\ ui1State.consolidatedRows[1].DB_mapping # S_empty
    /\ ui1State.consolidatedRows[2].DB_mapping = S_empty
    /\ ui1State.consolidatedRows[2].is_computed = S_YES
    /\ Len(ui1State.validationErrors) = 1

\* the records the two files of a run deliver
MappingRecords == parseDBMappingFile(ui1Inputs.dbMappingFile).value
ComputedRecords ==
    IF ui1Inputs.computedFieldsFile.present
    THEN parseComputedFields(ui1Inputs.computedFieldsFile).value ELSE <<>>

\* a run that reached the consolidation
Consolidated == ui1State.pc = "done" /\ ui1State.alert = S_empty

\* C13: the consolidation builds one row per extracted field, in the order
\* of the fields and whatever the number of diagnostics; a row is marked
\* computed ('YES') exactly when a computed-field record has the field's
\* name ignoring case, and 'NO' otherwise; the formula of a 'NO' row is
\* empty; plan_type is the plan type the caller chose.
C13_OneRowPerField ==
    Consolidated =>
      LET consolidated == ui1State.consolidatedRows
          figmaFields == ui1State.figmaFields
      IN  /\ Len(consolidated) = Len(figmaFields)
          /\ \A i \in DOMAIN consolidated :
                LET matched == \E k \in DOMAIN ComputedRecords :
                                  toLowerCase(ComputedRecords[k].fieldName)
                                    = toLowerCase(figmaFields[i].fieldName)
                IN  /\ consolidated[i].field_name = figmaFields[i].fieldName
                    /\ consolidated[i].section = figmaFields[i].section
                    /\ consolidated[i].subsection = figmaFields[i].subsection
                    /\ consolidated[i].order = figmaFields[i].order
                    /\ consolidated[i].screen_name = figmaFields[i].screenName
                    /\ consolidated[i].is_computed = (IF matched THEN S_YES ELSE S_NO)
                    /\ (~matched => consolidated[i].formula = S_empty)
                    /\ consolidated[i].plan_type = ui1Inputs.planType

\* a consolidation of two fields, the first computed through a record
\* written in another case and the second not, with a diagnostic
C13_Witness ==
    /\ Consolidated
    /\ Len(ui1State.figmaFields) = 2
    /\ ui1State.consolidatedRows[1].is_computed = S_YES
    /\ ui1State.consolidatedRows[2].is_computed = S_NO
    /\ \A k \in DOMAIN ComputedRecords :
          ComputedRecords[k].fieldName # ui1State.figmaFields[1].fieldName
    /\ ui1State.validationErrors # <<>>
    /\ ui1Inputs.planType = S_DENTAL

\* the records of a list whose field name is the given one ignoring case
MatchingRecords(records, fieldName) ==
    { k \in DOMAIN records :
        toLowerCase(records[k].fieldName) = toLowerCase(fieldName) }

\* C14: the lookups ignore the case of the field name and the last record
\* wins: the DB_mapping of a row is the dbColumn of the last mapping record,
\* in the order of the file, whose fieldName is the field's name ignoring
\* case, and empty when there is none; its formula is the formula of the
\* last such computed-field record, and empty when there is none.
C14_CaseInsensitiveLastWins ==
    Consolidated =>
      \A i \in DOMAIN ui1State.consolidatedRows :
         LET name == ui1State.figmaFields[i].fieldName
             mappings == MatchingRecords(MappingRecords, name)
             formulas == MatchingRecords(ComputedRecords, name)
         IN  /\ ui1State.consolidatedRows[i].DB_mapping
                  = (IF mappings = {} THEN S_empty
                     ELSE MappingRecords[SetMax(mappings)].dbColumn)
             /\ ui1State.consolidatedRows[i].formula
                  = (IF formulas = {} THEN S_empty
                     ELSE ComputedRecords[SetMax(formulas)].formula)

\* a consolidation of a field that two mapping records and two formula
\* records name, in different cases and with different values
C14_Witness ==
    /\ Consolidated
    /\ \E i \in DOMAIN ui1State.consolidatedRows :
          LET name == ui1State.figmaFields[i].fieldName
              mappings == MatchingRecords(MappingRecords, name)
              formulas == MatchingRecords(ComputedRecords, name)
          IN  /\ Cardinality(mappings) = 2
              /\ Cardinality(formulas) = 2
              /\ \E j, k \in mappings :
                    /\ MappingRecords[j].fieldName # MappingRecords[k].fieldName
                    /\ MappingRecords[j].dbColumn # MappingRecords[k].dbColumn
              /\ \E j, k \in formulas :
                    /\ ComputedRecords[j].fieldName # ComputedRecords[k].fieldName
                    /\ ComputedRecords[j].formula # ComputedRecords[k].formula

\* the document of the node the URL of a run names
RequestedDocument == ui1Inputs.response[parseFigmaUrl(ui1Inputs.figmaUrl).nodeId]

\* a run whose request found the node
Walked ==
    /\ ui1State.pc = "done"
    /\ ui1State.requests > 0
    /\ parseFigmaUrl(ui1Inputs.figmaUrl).nodeId \in DOMAIN ui1Inputs.response

\* C15: fetchFigmaData runs the fallback pass only when the primary walk
\* returned no field.  When the primary walk returned a field, its fields
\* are the result and the fallback pass was not called; when it returned
\* none, the fallback pass was called once and its fields, if any, are the
\* result; when both returned none the result is the empty list and nothing
\* was thrown: the run ends with the notice that no fields were found.
C15_FallbackOnlyWhenPrimaryEmpty ==
    Walked =>
      /\ ui1State.fallbackCalls = (IF ui1State.primaryFields = <<>> THEN 1 ELSE 0)
      /\ (ui1State.primaryFields # <<>> =>
            /\ ui1State.figmaFields = ui1State.primaryFields
            /\ ui1State.alert # S_No_fields_found)
      /\ (ui1State.primaryFields = <<>> =>
            /\ ui1State.figmaFields = aggressiveFieldExtraction(RequestedDocument)
            /\ (ui1State.figmaFields = <<>> => ui1State.alert = S_No_fields_found))

\* a run whose primary walk returned a field from a document in which the
\* fallback pass would have found one as well
C15_Witness ==
    /\ Walked
    /\ ui1State.primaryFields # <<>>
    /\ ui1State.fallbackCalls = 0
    /\ aggressiveFieldExtraction(RequestedDocument) # <<>>
    /\ ui1State.consolidatedRows # <<>>

\* the input-shape error of a run, if it has one: the first the run meets
UrlMalformed ==
    /\ Truthy(ui1Inputs.figmaUrl) /\ Truthy(ui1Inputs.figmaToken)
    /\ ui1Inputs.dbMappingFile.present
    /\ ~parseFigmaUrl(ui1Inputs.figmaUrl).found
NodeAbsent ==
    /\ ui1State.requests > 0
    /\ parseFigmaUrl(ui1Inputs.figmaUrl).nodeId \notin DOMAIN ui1Inputs.response
Unsupported(file) ==
    extensionOf(file.name) \notin {S_xlsx, S_xls, S_csv, S_pdf, S_doc, S_docx}
MappingUnsupported ==
    /\ ui1State.figmaFields # <<>>
    /\ Unsupported(ui1Inputs.dbMappingFile)
FormulasUnsupported ==
    /\ ui1State.figmaFields # <<>>
    /\ ~Unsupported(ui1Inputs.dbMappingFile)
    /\ ui1Inputs.computedFieldsFile.present
    /\ Unsupported(ui1Inputs.computedFieldsFile)

\* C16: an input-shape error ends the run: no consolidated rows, no second
\* request, and what the user is shown is the message of the error, with
\* nothing added: the notice of the URL format for a malformed URL, "Node
\* not found in Figma file" for an absent node, "Unsupported file format
\* for DB mapping" and "Unsupported file format for computed fields" for a
\* file of an unsupported extension.
C16_InputShapeErrorsVerbatim ==
    ui1State.pc = "done" =>
      /\ (UrlMalformed =>
            /\ ui1State.consolidatedRows = <<>> /\ ui1State.requests = 0
            /\ ui1State.alert = S_Invalid_Figma_URL)
      /\ (NodeAbsent =>
            /\ ui1State.consolidatedRows = <<>> /\ ui1State.requests = 1
            /\ ui1State.alert = S_Node_not_found)
      /\ (MappingUnsupported =>
            /\ ui1State.consolidatedRows = <<>> /\ ui1State.requests = 1
            /\ ui1State.alert = S_Unsupported_DB_mapping)
      /\ (FormulasUnsupported =>
            /\ ui1State.consolidatedRows = <<>> /\ ui1State.requests = 1
            /\ ui1State.alert = S_Unsupported_computed)

\* C16 as amended: an input-shape error ends the run without consolidated
\* rows and without a second request, and the user is shown: for a
\* malformed URL the notice of the URL format; for an absent node "Error: "
\* followed by "Failed to fetch Figma data: " and the message of the error;
\* for a file of an unsupported extension "Error: " followed by the message
\* of the error.
C16_InputShapeErrorsFatal ==
    ui1State.pc = "done" =>
      /\ (UrlMalformed =>
            /\ ui1State.consolidatedRows = <<>> /\ ui1State.requests = 0
            /\ ui1State.alert = S_Invalid_Figma_URL)
      /\ (NodeAbsent =>
            /\ ui1State.consolidatedRows = <<>> /\ ui1State.requests = 1
            /\ ui1State.alert = S_Error_prefix \o S_Failed_to_fetch \o S_Node_not_found)
      /\ (MappingUnsupported =>
            /\ ui1State.consolidatedRows = <<>> /\ ui1State.requests = 1
            /\ ui1State.alert = S_Error_prefix \o S_Unsupported_DB_mapping)
      /\ (FormulasUnsupported =>
            /\ ui1State.consolidatedRows = <<>> /\ ui1State.requests = 1
            /\ ui1State.alert = S_Error_prefix \o S_Unsupported_computed)

\* a run stopped by the extension of its mapping file after the document
\* gave fields
C16_Witness ==
    /\ ui1State.pc = "done"
    /\ MappingUnsupported
    /\ extensionOf(ui1Inputs.dbMappingFile.name) = <<"t","x","t">>
    /\ ui1State.alert # S_empty
    /\ ui1State.consolidatedRows = <<>>

\* the lines of the formula file of a run that name an extracted field,
\* ignoring case, and have a blank formula
BlankFormulaLines ==
    IF ~ui1Inputs.computedFieldsFile.present THEN {}
    ELSE LET lines == ui1Inputs.computedFieldsFile.records IN
         { k \in DOMAIN lines :
             /\ Len(lines[k]) >= 2
             /\ trim(lines[k][2]) = S_empty
             /\ \E i \in DOMAIN ui1State.figmaFields :
                   toLowerCase(trim(lines[k][1]))
                     = toLowerCase(ui1State.figmaFields[i].fieldName) }

\* C30: with the computed-field records read by the parsers of fileParser, no
\* consolidated row is marked computed ('YES') with an empty formula, and no
\* "Computed field is missing formula" diagnostic is among the diagnostics of
\* a consolidation run.
C30_ComputedRowsHaveFormula ==
    Consolidated =>
      /\ \A i \in DOMAIN ui1State.consolidatedRows :
            ui1State.consolidatedRows[i].is_computed = S_YES
               => ui1State.consolidatedRows[i].formula # S_empty
      /\ \A k \in DOMAIN ui1State.validationErrors :
            ui1State.validationErrors[k].message # S_Missing_formula

\* a consolidation with a computed row whose formula file also has a line
\* with a blank formula for an extracted field
C30_Witness ==
    /\ Consolidated
    /\ BlankFormulaLines # {}
    /\ \E i \in DOMAIN ui1State.consolidatedRows :
          ui1State.consolidatedRows[i].is_computed = S_YES

-----------------------------------------------------------------------------
(***************************************************************************)
(* UI2GenerateConfig: handleProcess                                        *)
(***************************************************************************)
S_Please_upload_Excel == <<"P","l","e","a","s","e"," ","u","p","l","o","a","d"," ","a"," ","c","o","n","s","o","l","i","d","a","t","e","d"," ","E","x","c","e","l"," ","f","i","l","e">>
S_Successfully_generated == <<"S","u","c","c","e","s","s","f","u","l","l","y"," ","g","e","n","e","r","a","t","e","d"," ">>
S_config_JSONs == <<" ","c","o","n","f","i","g"," ","J","S","O","N","s","!">>
\* the message of the Error workbook.xlsx.load rejects with
S_load_failed == <<"C","a","n","'","t"," ","f","i","n","d"," ","e","n","d"," ","o","f"," ","c","e","n","t","r","a","l"," ","d","i","r","e","c","t","o","r","y">>

\* the file input of UI2: empty, a workbook with its first sheet, or a file
\* that is no workbook
NoWorkbook == [present |-> FALSE, readable |-> FALSE, sheet |-> <<>>]
Workbook(sheet) == [present |-> TRUE, readable |-> TRUE, sheet |-> sheet]
Unreadable == [present |-> TRUE, readable |-> FALSE, sheet |-> <<>>]

\* String(n) of a natural number
RECURSIVE decimal(_)
decimal(n) ==
    IF n < 10 THEN << Digits[n + 1] >>
    ELSE decimal(n \div 10) \o << Digits[(n % 10) + 1] >>

Mounted2 ==
    [pc |-> "start", isProcessing |-> FALSE, runs |-> 0, excelFile |-> NoWorkbook,
     consolidatedRows |-> <<>>, configs |-> <<>>, alert |-> S_empty]

\* await parseConsolidatedExcel(excelFile)
readConsolidatedExcel(file) ==
    IF file.readable THEN Returned(parseConsolidatedExcel(file.sheet))
    ELSE Threw(S_load_failed)

\* if (!excelFile) { alert(...); return; }
ui2Refused(state) ==
    [state EXCEPT !.runs = @ + 1, !.alert = S_Please_upload_Excel, !.pc = "done"]

\* setIsProcessing(true)
ui2Begun(state) ==
    [state EXCEPT !.isProcessing = TRUE, !.runs = @ + 1, !.alert = S_empty]

\* the try block from its await on, with its catch
ui2TryBlock(state) ==
    LET parsed == readConsolidatedExcel(state.excelFile) IN
    IF parsed.threw
    THEN [state EXCEPT !.alert = S_Error_prefix \o parsed.message, !.pc = "done"]
    ELSE LET generatedConfigs == generateAllConfigs(parsed.value) IN
         [state EXCEPT !.consolidatedRows = parsed.value,
                       !.configs = generatedConfigs,
                       !.alert = S_Successfully_generated
                                   \o decimal(Len(generatedConfigs)) \o S_config_JSONs,
                       !.pc = "done"]

\* finally { setIsProcessing(false) }
ui2FinallyBlock(state) == [state EXCEPT !.isProcessing = FALSE]

ui2HandleProcess(state) ==
    IF ~state.excelFile.present THEN ui2Refused(state)
    ELSE ui2FinallyBlock(ui2TryBlock(ui2Begun(state)))

-----------------------------------------------------------------------------
(* The two screens over several runs.  A run that reaches an await gives   *)
(* the screen back to the user with isProcessing set and goes on when the  *)
(* awaited call settles; a handler works on the values of the render it    *)
(* was started from, so that an input changed while it waits is seen by    *)
(* the next run only, and inputs are changed between runs.                 *)

MaxClicks == 3

L_Fee_B == << <<"F","e","e"," ","B">>, <<"e","m","p",".","f","e","e","_","b">> >>
L_FEE_C == << <<"F","E","E"," ","C">>, <<"e","m","p",".","f","e","e","_","c">> >>

\* inputs of UI1 for a run with a diagnostic, and the same with one input
\* changed: a run without diagnostic, and one for each way a run ends early
\* or fails
DiagnosedInputs ==
    [figmaUrl |-> U_file, figmaToken |-> S_token,
     response |-> [id \in {S_node_1_2} |-> Document("section", <<"field", "fieldRight">>)],
     dbMappingFile |-> File(F_mapping_xlsx, << L_Fee_B >>),
     computedFieldsFile |-> NoFile, planType |-> S_MEDICAL]
RunInputs ==
    { DiagnosedInputs,
      [DiagnosedInputs EXCEPT !.dbMappingFile = File(F_mapping_xlsx, << L_Fee_B, L_FEE_C >>)],
      [DiagnosedInputs EXCEPT !.figmaUrl = S_empty],
      [DiagnosedInputs EXCEPT !.dbMappingFile = NoFile],
      [DiagnosedInputs EXCEPT !.figmaUrl = U_proto],
      [DiagnosedInputs EXCEPT !.figmaUrl = U_other_node],
      [DiagnosedInputs EXCEPT
          !.response = [id \in {S_node_1_2} |-> Document("container", <<>>)]],
      [DiagnosedInputs EXCEPT !.dbMappingFile = File(F_mapping_txt, << L_Fee_B >>)] }

\* the files given to UI2
ExcelFiles ==
    { NoWorkbook, Unreadable, Workbook(<< headerRow >>),
      Workbook(<< headerRow,
                  << CellStr(S_b), CellNull, CellStr(S_a), CellNum(3), CellStr(S_edit),
                     CellStr(S_b), CellNull, CellNull, CellStr(S_DENTAL) >> >>) }

Clicks == ui1State.runs + ui2State.runs

RunsInit ==
    /\ SynthIdle /\ ExcelIdle /\ SortIdle /\ WalkIdle
    /\ rows = <<>>
    /\ ui1Inputs \in RunInputs
    /\ ui1State = Mounted
    /\ ui2State = Mounted2

\* UI1: the user changes an input
Ui1ChangeInputs ==
    /\ ui1State.pc # "awaiting"
    /\ Clicks < MaxClicks
    /\ ui1Inputs' \in RunInputs \ {ui1Inputs}
    /\ UNCHANGED <<ui1State, ui2Vars, synthVars, excelVars, sortVars, walkVars>>

\* UI1: a click on the enabled process button; handleProcess up to its first
\* await, or to its end when an input check returns before
Ui1ClickProcess ==
    /\ ~ui1State.isProcessing
    /\ Clicks < MaxClicks
    /\ IF stopsBeforeFetch(ui1Inputs)
       THEN ui1State' \in handleProcess(ui1State, ui1Inputs)
       ELSE ui1State' = [begun(ui1State) EXCEPT !.pc = "awaiting"]
    /\ UNCHANGED <<ui1Inputs, ui2Vars, synthVars, excelVars, sortVars, walkVars>>

\* UI1: the awaited calls settle and handleProcess runs to its end
Ui1Settle ==
    /\ ui1State.pc = "awaiting"
    /\ ui1State' \in settled(ui1State, ui1Inputs)
    /\ UNCHANGED <<ui1Inputs, ui2Vars, synthVars, excelVars, sortVars, walkVars>>

\* UI2: the user chooses a file
Ui2SetExcelFile ==
    /\ ui2State.pc # "awaiting"
    /\ Clicks < MaxClicks
    /\ \E file \in ExcelFiles \ {ui2State.excelFile} :
          ui2State' = [ui2State EXCEPT !.excelFile = file]
    /\ UNCHANGED <<ui1Vars, synthVars, excelVars, sortVars, walkVars>>

\* UI2: a click on the enabled process button; handleProcess up to its await,
\* or to its return when no file is chosen
Ui2ClickProcess ==
    /\ ~ui2State.isProcessing
    /\ Clicks < MaxClicks
    /\ IF ~ui2State.excelFile.present
       THEN ui2State' = ui2HandleProcess(ui2State)
       ELSE ui2State' = [ui2Begun(ui2State) EXCEPT !.pc = "awaiting"]
    /\ UNCHANGED <<ui1Vars, synthVars, excelVars, sortVars, walkVars>>

\* UI2: parseConsolidatedExcel settles and handleProcess runs to its end
Ui2Settle ==
    /\ ui2State.pc = "awaiting"
    /\ ui2State' = ui2FinallyBlock(ui2TryBlock(ui2State))
    /\ UNCHANGED <<ui1Vars, synthVars, excelVars, sortVars, walkVars>>

RunsNext ==
    \/ Ui1ChangeInputs \/ Ui1ClickProcess \/ Ui1Settle
    \/ Ui2SetExcelFile \/ Ui2ClickProcess \/ Ui2Settle

SpecRuns == RunsInit /\ [][RunsNext]_vars

\* C26: after any sequence of runs of UI1 the displayed validationErrors are
\* exactly the diagnostics of the displayed consolidatedRows; a run that failed
\* or returned early has left the rows and the diagnostics of the last
\* successful run as they were.
C26_DiagnosticsOfDisplayedRows ==
    ui1State.pc # "awaiting" =>
        DiagnosticsExact(ui1State.validationErrors, ui1State.consolidatedRows)

\* C29: on both screens isProcessing is true only while a run waits for a
\* call: every run that has ended, by the return of an input check, by a
\* rejected fetch or parse, or by success, has left isProcessing false.
C29_ProcessingOnlyDuringRun ==
    /\ ui1State.isProcessing => ui1State.pc = "awaiting"
    /\ ui2State.isProcessing => ui2State.pc = "awaiting"

\* both screens have ended a run that failed while it waited, UI1 after a
\* run that returned at an input check
C29_Witness ==
    /\ ui1State.runs = 2
    /\ ui1State.pc = "done"
    /\ ui1State.alert = S_Error_prefix \o S_Failed_to_fetch \o S_Node_not_found
    /\ ~ui1State.isProcessing
    /\ ui2State.pc = "done"
    /\ ui2State.alert = S_Error_prefix \o S_load_failed
    /\ ~ui2State.isProcessing

====
